---- MODULE Spec2Model ----
(***************************************************************************)
(* Model of the external-sync publishing pipeline (sync-external.mjs,      *)
(* update-index.mjs): upstream resolution, publishExternal, updateIndexes  *)
(* and the run orchestrator, over an abstract disk.                        *)
(***************************************************************************)
EXTENDS Integers, Sequences, FiniteSets, TLC

(***************************************************************************)
(* Strings.  A tag, version or directory name is kept by its lexical       *)
(* parts: [v, core, rest] denotes  (v ? "v" : "") ++ join(core, ".") ++    *)
(* rest, e.g. [TRUE, <<2,0,0>>, "-beta.1"] is "v2.0.0-beta.1" and          *)
(* [FALSE, <<>>, "@latest"] is "@latest".                                  *)
(***************************************************************************)
S(v, core, rest) == [v |-> v, core |-> core, rest |-> rest]

EmptyStr == S(FALSE, <<>>, "")

\* rests that contain the character "-"
DashRests == {"-beta.1", "-rc.1", "+exp-1"}

\* stripV: String(tag || "").replace(/^v/i, "")
stripV(tag) == [tag EXCEPT !.v = FALSE]

\* the template `v${version}`; every version reaching it was produced by
\* stripV or sha12 and has no leading "v" left
PrefixV(version) == [version EXCEPT !.v = TRUE]

\* detectChannelFromVersion: v.includes("-") ? "beta" : "stable"
detectChannelFromVersion(version) ==
  IF version.rest \in DashRests THEN "beta" ELSE "stable"

normalizeUpstreamTagToVersion(tag) == stripV(tag)

(***************************************************************************)
(* semver (library): coerce keeps the first major[.minor[.patch]] digits   *)
(* of the string, pads with zeros and drops everything else, including a   *)
(* pre-release component; it returns null when there is no digit.          *)
(***************************************************************************)
SemVer(num, pre) == [num |-> num, pre |-> pre]
NoSemver == SemVer(<<>>, "")

Pad3(core) ==
  <<core[1],
    IF Len(core) >= 2 THEN core[2] ELSE 0,
    IF Len(core) >= 3 THEN core[3] ELSE 0>>

\* semver.coerce(s)?.version || null
semverCoerce(s) ==
  IF Len(s.core) = 0 THEN NoSemver ELSE SemVer(Pad3(s.core), "")

\* semver.valid(v)
semverValid(v) == v # NoSemver

\* semver.prerelease(v): the pre-release components, null when there are none
semverPrerelease(v) == v.pre # ""

semverMajor(v) == v.num[1]
semverMinor(v) == v.num[2]

\* semver.rcompare(a, b) < 0: a is the higher version and sorts first
semverHigher(a, b) ==
  \/ a.num[1] > b.num[1]
  \/ a.num[1] = b.num[1] /\ a.num[2] > b.num[2]
  \/ a.num[1] = b.num[1] /\ a.num[2] = b.num[2] /\ a.num[3] > b.num[3]
  \/ a.num = b.num /\ a.pre = "" /\ b.pre # ""

(***************************************************************************)
(* Commit ids: 40 hex characters kept as the first 12 and the other 28.    *)
(***************************************************************************)
Sha(head, tail) == [head |-> head, tail |-> tail]
NoSha == Sha("", "")

\* sha12: String(sha || "").slice(0, 12)
\* mutant: every commit gets the same short id
sha12_Constant(sha) == S(FALSE, <<>>, "aaaaaaaaaaaa")

sha12(sha) == S(FALSE, <<>>, sha.head)

(***************************************************************************)
(* File contents and integrity.                                            *)
(***************************************************************************)
Bytes(data) == [kind |-> "bytes", data |-> data]
Json(doc) == [kind |-> "json", doc |-> doc]

ManifestKeys ==
  <<"package", "version", "channel", "built_at", "commit", "upstream", "meta", "files">>

\* buf.length; a JSON document is measured by its keys and file entries
ByteLength(c) ==
  IF c.kind = "bytes" THEN Len(c.data)
  ELSE Len(ManifestKeys) + Cardinality(DOMAIN c.doc.files)

\* sriSha384: `sha384-${base64 digest}`; the digest is taken collision-free
sriSha384(buf) == [alg |-> "sha384", of |-> buf]

ManifestName == "manifest.json"

(***************************************************************************)
(* The disk of one package: a function from directory names to             *)
(* directories, a directory being a function from file names to contents.  *)
(***************************************************************************)
Put(f, k, x) == [y \in (DOMAIN f) \cup {k} |-> IF y = k THEN x ELSE f[y]]
Del(f, k) == [y \in (DOMAIN f) \ {k} |-> f[y]]
EmptyDir == [y \in {} |-> Bytes(<<>>)]

LatestDir == S(FALSE, <<>>, "@latest")
StableDir == S(FALSE, <<>>, "@stable")
BetaDir == S(FALSE, <<>>, "@beta")

OpMkdirp(dir) == [op |-> "mkdirp", dir |-> dir]
OpRmrf(dir) == [op |-> "rmrf", dir |-> dir]
OpWrite(dir, name, buf) == [op |-> "write", dir |-> dir, name |-> name, buf |-> buf]
OpCopy(src, dir, name) == [op |-> "copy", dir |-> dir, name |-> name, src |-> src]
OpWriteJson(dir, name, doc) == [op |-> "writeJson", dir |-> dir, name |-> name, doc |-> doc]

\* the file operation throws (ENOENT) instead of acting
OpThrows(d, o) ==
  CASE o.op = "write" -> o.dir \notin DOMAIN d
    [] o.op = "copy" -> \/ o.src \notin DOMAIN d
                        \/ o.name \notin DOMAIN d[o.src]
                        \/ o.dir \notin DOMAIN d
    [] OTHER -> FALSE

\* mkdirp / rmrf / fs.writeFileSync / fs.copyFileSync / writeJson
ApplyOp(d, o) ==
  CASE o.op = "mkdirp" -> IF o.dir \in DOMAIN d THEN d ELSE Put(d, o.dir, EmptyDir)
    [] o.op = "rmrf" -> Del(d, o.dir)
    [] o.op = "write" -> Put(d, o.dir, Put(d[o.dir], o.name, o.buf))
    [] o.op = "copy" -> Put(d, o.dir, Put(d[o.dir], o.name, d[o.src][o.name]))
    [] o.op = "writeJson" ->
         Put(d, o.dir,
             Put(IF o.dir \in DOMAIN d THEN d[o.dir] ELSE EmptyDir, o.name, Json(o.doc)))

\* the operations in order, up to the first one that throws
RECURSIVE RunOps(_, _)
RunOps(d, ops) ==
  IF ops = <<>> THEN [dirs |-> d, ok |-> TRUE]
  ELSE IF OpThrows(d, Head(ops)) THEN [dirs |-> d, ok |-> FALSE]
  ELSE CHOOSE r \in {RunOps(next, rest) : next \in {ApplyOp(d, Head(ops))},
                                         rest \in {Tail(ops)}} : TRUE

(***************************************************************************)
(* publishExternal                                                         *)
(***************************************************************************)
\* manifestFiles[name] = { integrity, bytes }, a later artifact of the same
\* name replacing the earlier entry
\* mutant: no artifact is entered in the manifest
ManifestFiles_Empty(files) ==
  [y \in {} |-> [integrity |-> sriSha384(Bytes(<<>>)), bytes |-> 0]]

RECURSIVE ManifestFiles(_)
ManifestFiles(files) ==
  IF files = <<>> THEN [y \in {} |-> [integrity |-> sriSha384(Bytes(<<>>)), bytes |-> 0]]
  ELSE LET f == files[Len(files)]
       IN Put(ManifestFiles(SubSeq(files, 1, Len(files) - 1)), f.name,
              [integrity |-> sriSha384(f.buf), bytes |-> ByteLength(f.buf)])

\* mutant: the key of the last artifact is missing
KeysInOrder_DropsLast(files) ==
  [i \in 1..(Len(files) - 1) |-> files[i].name]

\* Object.keys(manifestFiles): the names in order of first insertion
RECURSIVE KeysInOrder(_)
KeysInOrder(files) ==
  IF files = <<>> THEN <<>>
  ELSE LET n == files[Len(files)].name
       IN CHOOSE r \in {IF \E i \in 1..Len(init) : init[i] = n THEN init ELSE Append(init, n) :
                        init \in {KeysInOrder(SubSeq(files, 1, Len(files) - 1))}} : TRUE

Manifest(pkg, version, channel, builtAt, upstream, files, meta) ==
  [package |-> pkg,
   version |-> PrefixV(version),
   channel |-> channel,
   built_at |-> builtAt,
   commit |-> "null",
   upstream |-> upstream,
   meta |-> meta,
   files |-> ManifestFiles(files)]

\* mutant: the pointer is not cleared before it is repopulated
syncPointer_NoClear(versionDir, dir, keys, manifest) ==
  <<OpMkdirp(dir)>>
  \o [i \in 1..Len(keys) |-> OpCopy(versionDir, dir, keys[i])]
  \o <<OpWriteJson(dir, ManifestName, manifest)>>

\* syncPointer(dir): clear, copy every listed file from the version
\* directory, write the manifest last
syncPointer(versionDir, dir, keys, manifest) ==
  <<OpRmrf(dir), OpMkdirp(dir)>>
  \o [i \in 1..Len(keys) |-> OpCopy(versionDir, dir, keys[i])]
  \o <<OpWriteJson(dir, ManifestName, manifest)>>

\* mutant: the major alias is named like the minor alias
AliasMajorDir_Minor(coerced) == S(TRUE, <<semverMajor(coerced), semverMinor(coerced)>>, "")

AliasMajorDir(coerced) == S(TRUE, <<semverMajor(coerced)>>, "")
AliasMinorDir(coerced) == S(TRUE, <<semverMajor(coerced), semverMinor(coerced)>>, "")

\* the stable aliases are rebuilt
StableAliases(version, channel) ==
  /\ channel = "stable"
  /\ semverValid(semverCoerce(version))
  /\ ~semverPrerelease(semverCoerce(version))

\* the file operations of publishExternal, in program order
publishExternal(pkg, version, channel, builtAt, upstream, files, meta, updatePointer) ==
  LET versionDir == PrefixV(version)
      manifest == Manifest(pkg, version, channel, builtAt, upstream, files, meta)
      keys == KeysInOrder(files)
      coerced == semverCoerce(version)
  IN <<OpMkdirp(versionDir), OpMkdirp(LatestDir), OpMkdirp(StableDir), OpMkdirp(BetaDir),
       OpRmrf(versionDir), OpMkdirp(versionDir)>>
     \o [i \in 1..Len(files) |-> OpWrite(versionDir, files[i].name, files[i].buf)]
     \o <<OpWriteJson(versionDir, ManifestName, manifest)>>
     \o (IF updatePointer = "latest" THEN syncPointer(versionDir, LatestDir, keys, manifest)
         ELSE <<>>)
     \o (IF updatePointer = "stable" THEN syncPointer(versionDir, StableDir, keys, manifest)
         ELSE <<>>)
     \o (IF updatePointer = "beta" THEN syncPointer(versionDir, BetaDir, keys, manifest)
         ELSE <<>>)
     \o (IF StableAliases(version, channel)
         THEN syncPointer(versionDir, AliasMajorDir(coerced), keys, manifest)
              \o syncPointer(versionDir, AliasMinorDir(coerced), keys, manifest)
         ELSE <<>>)

(***************************************************************************)
(* updateIndexes (update-index.mjs)                                        *)
(***************************************************************************)
Entry(version, channel, builtAt) ==
  [version |-> version, channel |-> channel, built_at |-> builtAt]
NullEntry == Entry(EmptyStr, "null", 0)

\* versions.filter((v) => v.version !== version)
RECURSIVE FilterOut(_, _)
FilterOut(vs, version) ==
  IF vs = <<>> THEN <<>>
  ELSE IF Head(vs).version = version THEN FilterOut(Tail(vs), version)
  ELSE <<Head(vs)>> \o FilterOut(Tail(vs), version)

\* e goes behind every entry that is not older than it
RECURSIVE InsertByBuiltAt(_, _)
InsertByBuiltAt(sorted, e) ==
  IF sorted = <<>> THEN <<e>>
  ELSE IF Head(sorted).built_at >= e.built_at
       THEN <<Head(sorted)>> \o InsertByBuiltAt(Tail(sorted), e)
       ELSE <<e>> \o sorted

\* mutant: the entries are left in insertion order
SortNewestFirst_Unsorted(vs) == vs

\* versions.sort((a, b) => b.built_at.localeCompare(a.built_at)): newest
\* first, Array.prototype.sort being stable
RECURSIVE SortNewestFirst(_)
SortNewestFirst(vs) ==
  IF vs = <<>> THEN <<>>
  ELSE CHOOSE r \in {InsertByBuiltAt(sorted, vs[Len(vs)]) :
                      sorted \in {SortNewestFirst(SubSeq(vs, 1, Len(vs) - 1))}} : TRUE

\* mutant: the oldest entry of the channel is taken
FindChannel_Last(vs, channel) ==
  LET I == {i \in 1..Len(vs) : vs[i].channel = channel}
  IN IF I = {} THEN NullEntry ELSE vs[CHOOSE i \in I : \A j \in I : j <= i]

\* versions.find((v) => v.channel === channel) || null
RECURSIVE FindChannel(_, _)
FindChannel(vs, channel) ==
  IF vs = <<>> THEN NullEntry
  ELSE IF Head(vs).channel = channel THEN Head(vs)
  ELSE FindChannel(Tail(vs), channel)

\* mutant: the oldest entry is taken
FirstEntry_Last(vs) == IF vs = <<>> THEN NullEntry ELSE vs[Len(vs)]

\* versions[0] || null
FirstEntry(vs) == IF vs = <<>> THEN NullEntry ELSE Head(vs)

\* the versions.json written for the package
UpsertVersions(vs, version, channel, builtAt) ==
  SortNewestFirst(Append(FilterOut(vs, version), Entry(version, channel, builtAt)))

\* mutant: the meta block of the publish is stored, absent or not
IndexEntry_DropsMeta(vs, meta, old) ==
  [last_stable |-> FindChannel(vs, "stable"),
   last_beta |-> FindChannel(vs, "beta"),
   last_latest |-> FirstEntry(vs),
   meta |-> meta]

\* global.packages[pkg] as written to index.json
IndexEntry(vs, meta, old) ==
  [last_stable |-> FindChannel(vs, "stable"),
   last_beta |-> FindChannel(vs, "beta"),
   last_latest |-> FirstEntry(vs),
   meta |-> IF meta # "null" THEN meta ELSE old]

\* updateIndexes over d = [versions, index]: the package's versions.json
\* and the global index.json
updateIndexes(d, pkg, version, channel, builtAt, meta) ==
  LET old == IF pkg \in DOMAIN d.versions THEN d.versions[pkg] ELSE <<>>
      oldMeta == IF pkg \in DOMAIN d.index.packages
                 THEN d.index.packages[pkg].meta ELSE "null"
  IN CHOOSE r \in
       {[versions |-> Put(d.versions, pkg, vs),
         index |-> [generated_at |-> builtAt,
                    packages |-> Put(d.index.packages, pkg, IndexEntry(vs, meta, oldMeta))]] :
          vs \in {UpsertVersions(old, version, channel, builtAt)}} : TRUE

(***************************************************************************)
(* Upstream objects, configuration and the sync state                      *)
(***************************************************************************)
Asset(name, data) == [name |-> name, data |-> data]
Release(tag, prerelease, draft, assets) ==
  [tag_name |-> tag, prerelease |-> prerelease, draft |-> draft, assets |-> assets]
NoRelease == Release(EmptyStr, FALSE, FALSE, <<>>)

\* one repository as the host API shows it: /releases/latest, /releases,
\* /tags, and the commit the configured ref resolves to with its files
Upstream(latest, releases, tags, head, tree) ==
  [latest |-> latest, releases |-> releases, tags |-> tags, head |-> head, tree |-> tree]

\* `${repo}@${channel}:${tag}`
Key(repo, channel, tag) == [repo |-> repo, channel |-> channel, tag |-> tag]
NoKey == Key("", "", EmptyStr)

\* state[pkg] of external-state.json; an absent field holds its No-value
NoState ==
  [latest_key |-> NoKey, stable_key |-> NoKey, beta_key |-> NoKey,
   last_upstream_tag |-> EmptyStr, last_upstream_stable_tag |-> EmptyStr,
   last_upstream_beta_tag |-> EmptyStr, last_commit |-> NoSha, last_upstream_ref |-> ""]

\* mutant: the stored identities are never found
StateOf_Forgets(state, pkg) == NoState

StateOf(state, pkg) == IF pkg \in DOMAIN state THEN state[pkg] ELSE NoState

Row(pkg, type, upstream, action, status) ==
  [package |-> pkg, type |-> type, upstream |-> upstream, action |-> action, status |-> status]

\* record(row)
Record(c, row) == [c EXCEPT !.results = Append(@, row)]

Fail(c, row) == [Record(c, row) EXCEPT !.hadFailure = TRUE]

DirsOf(c, pkg) == IF pkg \in DOMAIN c.dirs THEN c.dirs[pkg] ELSE EmptyDir

(***************************************************************************)
(* downloadReleaseAssets: the assets whose name matches asset_regex, each  *)
(* downloaded to tmpDir/<name>; an empty list when none matches            *)
(***************************************************************************)
RECURSIVE downloadReleaseAssets(_, _)
downloadReleaseAssets(assets, assetRegex) ==
  IF assets = <<>> THEN <<>>
  ELSE (IF Head(assets).name \in assetRegex
        THEN <<[name |-> Head(assets).name, buf |-> Bytes(Head(assets).data)]>>
        ELSE <<>>)
       \o downloadReleaseAssets(Tail(assets), assetRegex)

\* publishExternal followed by updateIndexes, as every adapter calls them;
\* an exception of publishExternal leaves the indexes alone and sets thrown
PublishAndIndex(c, pkg, version, channel, builtAt, upstream, files, meta, updatePointer) ==
  LET Indexed(r) ==
        CHOOSE x \in {[c EXCEPT !.dirs = Put(@, pkg, r.dirs), !.versions = ix.versions,
                                !.index = ix.index] :
                        ix \in {updateIndexes([versions |-> c.versions, index |-> c.index],
                                              pkg, PrefixV(version), channel, builtAt,
                                              meta)}} : TRUE
  IN CHOOSE x \in
       {IF r.ok THEN Indexed(r)
        ELSE [c EXCEPT !.dirs = Put(@, pkg, r.dirs), !.thrown = TRUE] :
          r \in {RunOps(d, ops) :
                   d \in {DirsOf(c, pkg)},
                   ops \in {publishExternal(pkg, version, channel, builtAt, upstream, files,
                                            meta, updatePointer)}}} : TRUE

\* mutant: the identity is stored whether the publish completed or not
Advance_Eager(p, pkg, st2, row) ==
  IF p.thrown THEN [p EXCEPT !.state = Put(@, pkg, st2), !.changed = TRUE]
  ELSE Record([p EXCEPT !.state = Put(@, pkg, st2), !.changed = TRUE], row)

\* the caller's handling of a publish that returned: the identity of the
\* target is stored in state[pkg], changed is set and the OK row recorded;
\* an exception passes through
Advance(p, pkg, st2, row) ==
  IF p.thrown THEN p
  ELSE Record([p EXCEPT !.state = Put(@, pkg, st2), !.changed = TRUE], row)

\* what interrupts a run: nothing, a download that fails (curl exits
\* non-zero) for one pointer, or the process being killed while that pointer
\* is published, after `at` file operations of publishExternal
NoFault == [kind |-> "none", target |-> "", at |-> 0]
Download(pointer) == [kind |-> "download", target |-> pointer, at |-> 0]
Kill(pointer, at) == [kind |-> "kill", target |-> pointer, at |-> at]

Fails(net, pointerName) == net.kind = "download" /\ net.target = pointerName

\* the publish of one target, or as much of it as the process lives to do:
\* killed after `at` file operations of publishExternal; with every
\* operation done, killed before updateIndexes, and one later, after it
PublishOrDie(c, net, pkg, version, channel, builtAt, upstream, files, meta, updatePointer) ==
  IF net.kind = "kill" /\ net.target = updatePointer
  THEN CHOOSE x \in
         {IF net.at > Len(ops)
          THEN [PublishAndIndex(c, pkg, version, channel, builtAt, upstream, files, meta,
                                updatePointer) EXCEPT !.thrown = TRUE, !.killed = TRUE]
          ELSE [c EXCEPT !.dirs = Put(@, pkg, RunOps(DirsOf(c, pkg),
                                                     SubSeq(ops, 1, net.at)).dirs),
                         !.thrown = TRUE, !.killed = TRUE] :
            ops \in {publishExternal(pkg, version, channel, builtAt, upstream, files, meta,
                                     updatePointer)}} : TRUE
  ELSE PublishAndIndex(c, pkg, version, channel, builtAt, upstream, files, meta,
                       updatePointer)

(***************************************************************************)
(* github-release-assets-semver                                            *)
(***************************************************************************)
\* getReleases: (rels || []).filter((r) => r && !r.draft)
RECURSIVE getReleases(_)
getReleases(rels) ==
  IF rels = <<>> THEN <<>>
  ELSE (IF Head(rels).draft THEN <<>> ELSE <<Head(rels)>>) \o getReleases(Tail(rels))

\* one element of `parsed`
Parsed(r) ==
  LET v == semverCoerce(stripV(r.tag_name))
  IN [r |-> r, tag |-> r.tag_name, v |-> v,
      prerelease |-> (r.prerelease \/ (semverValid(v) /\ semverPrerelease(v)))]

\* releases.map(...).filter((x) => x.v && semver.valid(x.v)), then
\* .filter((x) => x.prerelease === pre)
RECURSIVE ParsedOf(_, _)
ParsedOf(rels, pre) ==
  IF rels = <<>> THEN <<>>
  ELSE (IF semverValid(Parsed(Head(rels)).v) /\ Parsed(Head(rels)).prerelease = pre
        THEN <<Parsed(Head(rels))>> ELSE <<>>)
       \o ParsedOf(Tail(rels), pre)

\* x goes behind every element that is not lower than it
RECURSIVE InsertBySemver(_, _)
InsertBySemver(sorted, x) ==
  IF sorted = <<>> THEN <<x>>
  ELSE IF semverHigher(x.v, Head(sorted).v)
       THEN <<x>> \o sorted
       ELSE <<Head(sorted)>> \o InsertBySemver(Tail(sorted), x)

\* xs.sort((a, b) => semver.rcompare(a.v, b.v)): highest first, stable
RECURSIVE SortBySemver(_)
SortBySemver(xs) ==
  IF xs = <<>> THEN <<>>
  ELSE CHOOSE r \in {InsertBySemver(sorted, xs[Len(xs)]) :
                      sorted \in {SortBySemver(SubSeq(xs, 1, Len(xs) - 1))}} : TRUE

NoParsed == [r |-> NoRelease, tag |-> EmptyStr, v |-> NoSemver, prerelease |-> FALSE]

\* parsed.filter(...).sort(...)[0] || null
Target(rels, pre) ==
  LET sorted == SortBySemver(ParsedOf(getReleases(rels), pre))
  IN IF sorted = <<>> THEN NoParsed ELSE Head(sorted)

\* getHighestSemverTag: the highest tag name that coerces to a version
RECURSIVE TagVersions(_)
TagVersions(tags) ==
  IF tags = <<>> THEN <<>>
  ELSE (IF semverValid(semverCoerce(stripV(Head(tags))))
        THEN <<[tag |-> Head(tags), v |-> semverCoerce(stripV(Head(tags)))]>>
        ELSE <<>>)
       \o TagVersions(Tail(tags))

getHighestSemverTag(tags) ==
  LET sorted == SortBySemver(TagVersions(tags))
  IN IF sorted = <<>> THEN EmptyStr ELSE Head(sorted).tag

(***************************************************************************)
(* downloadZipballBuildAndCollect: the snapshot of the tag is unpacked,    *)
(* `npm install` and the build command run in the working directory, and   *)
(* the files matching the extract rules are collected                      *)
(***************************************************************************)
\* what the install and build commands make of the snapshot of a tag:
\* "exit" when a command exits non-zero or times out (execSync throws),
\* "noworkdir" when the working directory is not in the snapshot, and the
\* built tree otherwise
BuildOf(tag) ==
  CASE tag.core = <<1, 1, 0>> -> [status |-> "exit", tree |-> <<>>]
    [] tag.core = <<1, 2, 0>> -> [status |-> "noworkdir", tree |-> <<>>]
    [] tag.core = <<1, 4, 0>> -> [status |-> "ok", tree |-> <<Asset("readme.txt", <<6>>)>>]
    [] tag.core = <<1, 5, 0>> ->
         [status |-> "ok", tree |-> <<Asset("a.js", <<7>>), Asset("b.js", <<7, 7>>)>>]
    [] OTHER -> [status |-> "ok", tree |-> <<Asset("a.js", <<9>>)>>]

\* extractFromDir: nothing without rules, else the files a rule matches
extractFromDir(tree, extractRules) ==
  IF extractRules = {} THEN <<>> ELSE downloadReleaseAssets(tree, extractRules)

\* the files collected, or thrown when a command fails
downloadZipballBuildAndCollect(release, extractRules, buildCfg) ==
  LET b == BuildOf(release.tag_name)
  IN IF ~buildCfg THEN [thrown |-> FALSE, files |-> <<>>]
     ELSE IF b.status = "exit" THEN [thrown |-> TRUE, files |-> <<>>]
     ELSE IF b.status = "noworkdir" THEN [thrown |-> FALSE, files |-> <<>>]
     ELSE [thrown |-> FALSE, files |-> extractFromDir(b.tree, extractRules)]

\* publishFromRelease(releaseObj, pointerName) with its caller's handling
\* of the result: FAIL row, or state update (setKey), changed and OK row.
\* A download planned to fail (net = pointerName) throws.
publishFromRelease(c, src, releaseObj, pointerName, builtAt, net) ==
  LET tag == releaseObj.tag_name
      version == normalizeUpstreamTagToVersion(tag)
      channel == detectChannelFromVersion(version)
      built == downloadZipballBuildAndCollect(releaseObj, src.extract, src.build)
      files == IF src.build THEN built.files
               ELSE downloadReleaseAssets(releaseObj.assets, src.asset_regex)
      prov == [type |-> IF src.build THEN "github-zipball-build" ELSE "github-release",
               repo |-> src.repo, tag |-> tag, commit |-> NoSha]
      st == StateOf(c.state, src.package)
      st2 == CASE pointerName = "latest" ->
                    [st EXCEPT !.latest_key = Key(src.repo, "latest", tag),
                               !.last_upstream_tag = tag]
               [] pointerName = "stable" ->
                    [st EXCEPT !.stable_key = Key(src.repo, "stable", tag),
                               !.last_upstream_stable_tag = tag]
               [] pointerName = "beta" ->
                    [st EXCEPT !.beta_key = Key(src.repo, "beta", tag),
                               !.last_upstream_beta_tag = tag]
  IN IF Fails(net, pointerName) \/ (src.build /\ built.thrown)
     THEN [c EXCEPT !.thrown = TRUE]
     ELSE IF files = <<>>
     THEN Fail(c, Row(src.package, src.type, tag, "publish", "FAIL"))
     ELSE CHOOSE x \in
            {Advance(p, src.package, st2, Row(src.package, src.type, tag, "publish", "OK")) :
               p \in {PublishOrDie(c, net, src.package, version, channel, builtAt, prov,
                                   files, src.meta, pointerName)}} : TRUE

\* the body of the github-release-assets-semver branch of the main loop
SemverSource(c, src, up, builtAt, net) ==
  LET latest == up.latest
      topTag == getHighestSemverTag(up.tags)
      latestTag == IF latest.tag_name # EmptyStr THEN latest.tag_name ELSE topTag
      st == StateOf(c.state, src.package)
      latestKey == Key(src.repo, "latest", latestTag)
      needLatest == st.latest_key # latestKey
      stable == Target(up.releases, FALSE)
      beta == Target(up.releases, TRUE)
      stableKey == IF stable.tag # EmptyStr THEN Key(src.repo, "stable", stable.tag) ELSE NoKey
      betaKey == IF beta.tag # EmptyStr THEN Key(src.repo, "beta", beta.tag) ELSE NoKey
      needStable == stableKey # NoKey /\ st.stable_key # stableKey
      needBeta == betaKey # NoKey /\ st.beta_key # betaKey
      PublishLatest(c0) ==
        IF ~needLatest THEN c0
        ELSE IF latest.tag_name = EmptyStr
             THEN Fail(c0, Row(src.package, src.type, latestTag, "publish", "FAIL"))
             ELSE publishFromRelease(c0, src, latest, "latest", builtAt, net)
      PublishStable(c1) ==
        IF c1.thrown \/ ~needStable THEN c1
        ELSE publishFromRelease(c1, src, stable.r, "stable", builtAt, net)
      PublishBeta(c2) ==
        IF c2.thrown \/ ~needBeta THEN c2
        ELSE publishFromRelease(c2, src, beta.r, "beta", builtAt, net)
  IN IF src.repo = ""
     THEN Fail(c, Row(src.package, src.type, EmptyStr, "skip", "FAIL"))
     ELSE IF latestTag = EmptyStr
     THEN Fail(c, Row(src.package, src.type, EmptyStr, "skip", "FAIL"))
     ELSE IF ~needLatest /\ ~needStable /\ ~needBeta
     THEN Record(c, Row(src.package, src.type, latestTag, "skip", "SKIP"))
     ELSE CHOOSE c3 \in
            {PublishBeta(c2) :
               c2 \in {PublishStable(c1) : c1 \in {PublishLatest(c)}}} : TRUE

(***************************************************************************)
(* github-release-asset (legacy) and github-raw-file                       *)
(***************************************************************************)
\* the body of the github-release-asset branch; /releases/latest answering
\* 404 makes httpGetJson throw
ReleaseAssetSource(c, src, up, builtAt, net) ==
  LET rel == up.latest
      tag == rel.tag_name
      prev == StateOf(c.state, src.package).last_upstream_tag
      files == downloadReleaseAssets(rel.assets, src.asset_regex)
      version == stripV(tag)
      channel == IF src.channel # "" THEN src.channel ELSE detectChannelFromVersion(version)
      prov == [type |-> "github-release", repo |-> src.repo, tag |-> tag, commit |-> NoSha]
      st2 == [StateOf(c.state, src.package) EXCEPT !.last_upstream_tag = tag]
  IN IF src.repo = ""
     THEN Fail(c, Row(src.package, src.type, EmptyStr, "skip", "FAIL"))
     ELSE IF rel = NoRelease THEN [c EXCEPT !.thrown = TRUE]
     ELSE IF tag = EmptyStr
     THEN Fail(c, Row(src.package, src.type, EmptyStr, "skip", "FAIL"))
     ELSE IF prev = tag
     THEN Record(c, Row(src.package, src.type, tag, "skip", "SKIP"))
     ELSE IF files = <<>>
     THEN Fail(c, Row(src.package, src.type, tag, "publish", "FAIL"))
     ELSE IF Fails(net, "latest") THEN [c EXCEPT !.thrown = TRUE]
     ELSE CHOOSE x \in
            {Advance(p, src.package, st2, Row(src.package, src.type, tag, "publish", "OK")) :
               p \in {PublishOrDie(c, net, src.package, version, channel, builtAt, prov,
                                   files, src.meta, "latest")}} : TRUE

\* path.basename of the configured paths
Basename(path) ==
  CASE path = "dist/a.js" -> "a.js"
    [] path = "src/a.js" -> "a.js"
    [] path = "dist/manifest.json" -> "manifest.json"
    [] OTHER -> path

\* f.outName || path.basename(f.path)
OutName(f) == IF f.out_name # "" THEN f.out_name ELSE Basename(f.path)

\* the bytes at tmpDir/<outName> once every file is fetched: those of the
\* last fetch written to that path
RECURSIVE LastFetched(_, _, _)
LastFetched(toFetch, tree, name) ==
  LET f == toFetch[Len(toFetch)]
  IN IF OutName(f) = name THEN tree[f.path]
     ELSE LastFetched(SubSeq(toFetch, 1, Len(toFetch) - 1), tree, name)

\* `downloaded`, each entry read back from its localPath by publishExternal
Downloaded(toFetch, tree) ==
  [i \in 1..Len(toFetch) |->
     [name |-> OutName(toFetch[i]),
      buf |-> Bytes(LastFetched(toFetch, tree, OutName(toFetch[i])))]]

\* the body of the github-raw-file branch; a path missing at the commit
\* makes the download throw
RawFileSource(c, src, up, builtAt, net) ==
  LET sha == up.head
      upstreamStr == sha12(sha)
      prev == StateOf(c.state, src.package).last_commit
      toFetch == src.fetch
      version == sha12(sha)
      prov == [type |-> "github-raw", repo |-> src.repo, tag |-> EmptyStr, commit |-> sha]
      st2 == [StateOf(c.state, src.package) EXCEPT !.last_commit = sha,
                                                   !.last_upstream_ref = src.ref]
  IN IF src.repo = ""
     THEN Fail(c, Row(src.package, src.type, EmptyStr, "skip", "FAIL"))
     ELSE IF sha = NoSha
     THEN Fail(c, Row(src.package, src.type, EmptyStr, "skip", "FAIL"))
     ELSE IF prev = sha
     THEN Record(c, Row(src.package, src.type, upstreamStr, "skip", "SKIP"))
     ELSE IF toFetch = <<>>
     THEN Fail(c, Row(src.package, src.type, upstreamStr, "skip", "FAIL"))
     ELSE IF Fails(net, "latest") \/ (\E i \in 1..Len(toFetch) : toFetch[i].path \notin DOMAIN up.tree)
     THEN [c EXCEPT !.thrown = TRUE]
     ELSE CHOOSE x \in
            {Advance(p, src.package, st2, Row(src.package, src.type, upstreamStr, "publish", "OK")) :
               p \in {PublishOrDie(c, net, src.package, version, "null", builtAt, prov,
                                   Downloaded(toFetch, up.tree), src.meta,
                                   "latest")}} : TRUE

(***************************************************************************)
(* The main loop                                                           *)
(***************************************************************************)
\* mutant: the exception is not caught
Catch_Rethrows(r, pkg, type) == r

\* catch (e): the source is recorded FAIL and the loop goes on
Catch(r, pkg, type) ==
  IF r.thrown /\ ~r.killed
  THEN [Fail(r, Row(pkg, type, EmptyStr, "publish", "FAIL")) EXCEPT !.thrown = FALSE]
  ELSE r

\* one iteration of `for (const src of cfg.sources)`, the catch included
Source(c, src, up, builtAt, net) ==
  LET type == IF src.type = "" THEN "unknown" ELSE src.type
      Body ==
        CASE src.type = "github-release-assets-semver" ->
               SemverSource(c, src, up, builtAt, net)
          [] src.type = "github-release-asset" ->
               ReleaseAssetSource(c, src, up, builtAt, net)
          [] src.type = "github-raw-file" -> RawFileSource(c, src, up, builtAt, net)
          [] OTHER -> Fail(c, Row(src.package, type, EmptyStr, "skip", "FAIL"))
  IN IF src.package = "" \/ c.killed THEN c
     ELSE CHOOSE x \in {Catch(r, src.package, type) : r \in {Body}} : TRUE

NoUpstream == Upstream(NoRelease, <<>>, <<>>, NoSha, EmptyDir)

\* what the host answers for the repository
UpOf(ups, repo) == IF repo \in DOMAIN ups THEN ups[repo] ELSE NoUpstream

\* the loop over the first n sources
RECURSIVE Loop(_, _, _, _, _, _)
Loop(c, sources, ups, builtAt, net, n) ==
  IF n = 0 THEN c
  ELSE CHOOSE x \in
         {Source(prev, sources[n], up, builtAt, net) :
            prev \in {Loop(c, sources, ups, builtAt, net, n - 1)},
            up \in {UpOf(ups, sources[n].repo)}} : TRUE

(***************************************************************************)
(* buildBundleManifest (build-bundle-manifest.mjs)                         *)
(***************************************************************************)
\* readJson(<pkg>/<ver>/manifest.json, null) has a manifest
HasManifest(pd, ver) ==
  /\ ver \in DOMAIN pd
  /\ ManifestName \in DOMAIN pd[ver]
  /\ pd[ver][ManifestName].kind = "json"

\* mutant: only the newest versions.json entry gets a record
BundleVersions_NewestOnly(pd, vs) ==
  LET vers == {vs[i].version : i \in {j \in 1..Len(vs) : j = 1 /\ HasManifest(pd, vs[j].version)}}
  IN [ver \in vers |->
        LET m == pd[ver][ManifestName].doc
        IN [channel |-> m.channel, built_at |-> m.built_at,
            commit |-> m.commit, upstream |-> m.upstream, files |-> m.files]]

\* pkgOut.versions: one record per versions.json entry with a manifest
BundleVersions(pd, vs) ==
  LET vers == {vs[i].version : i \in {j \in 1..Len(vs) : HasManifest(pd, vs[j].version)}}
  IN [ver \in vers |->
        LET m == pd[ver][ManifestName].doc
            v == vs[CHOOSE i \in 1..Len(vs) : vs[i].version = ver]
        IN [channel |-> IF m.channel # "null" THEN m.channel ELSE v.channel,
            built_at |-> IF m.built_at # 0 THEN m.built_at ELSE v.built_at,
            commit |-> m.commit, upstream |-> m.upstream, files |-> m.files]]

buildBundleManifest(dirs, versions, index, builtAt) ==
  [generated_at |-> builtAt,
   packages |->
     [pkg \in DOMAIN index.packages |->
        [channels |-> index.packages[pkg],
         versions |-> BundleVersions(IF pkg \in DOMAIN dirs THEN dirs[pkg] ELSE EmptyDir,
                                     IF pkg \in DOMAIN versions THEN versions[pkg] ELSE <<>>)]]]

NoBundle == [generated_at |-> 0, packages |-> EmptyDir]
NoIndex == [generated_at |-> 0, packages |-> EmptyDir]
NoReport == [generated_at |-> 0, changed |-> FALSE, failures |-> 0, results |-> <<>>]

\* results.filter((r) => r.status === "FAIL").length
Failures(results) == Cardinality({i \in 1..Len(results) : results[i].status = "FAIL"})

(***************************************************************************)
(* Bounds and the upstream universe                                        *)
(***************************************************************************)
MaxRuns == 3
MaxEvents == 3
MaxPublishes == 2
MaxReads == 1
MaxSec == 1
MaxKill == 25

\* which download of the run fails (curl exits non-zero), if any
Net == {NoFault} \cup {Download(p) : p \in {"latest", "stable", "beta"}}

AllNames == {"a.js", "b.js", "foo.js", "manifest.json"}

Src(package, type, repo, channel, fetch) ==
  [package |-> package, type |-> type, repo |-> repo, asset_regex |-> AllNames,
   channel |-> channel, meta |-> "null", ref |-> "main", fetch |-> fetch,
   build |-> FALSE, extract |-> {}]

SemverSrc == Src("lib", "github-release-assets-semver", "r1", "", <<>>)
AssetSrc == Src("foo", "github-release-asset", "r2", "", <<>>)
AssetStableSrc == Src("foo", "github-release-asset", "r2", "stable", <<>>)
RawSrc == Src("raw", "github-raw-file", "r3", "", <<[path |-> "dist/a.js", out_name |-> ""]>>)

\* the semver source with the build step enabled, extract rules for the
\* built a.js, and files to fetch configured
BuildSrc ==
  [Src("lib", "github-release-assets-semver", "r1", "",
       <<[path |-> "dist/a.js", out_name |-> ""]>>)
     EXCEPT !.build = TRUE, !.extract = {"a.js"}]

\* a source with no repo, one of a type the program does not know, and one
\* with no package name
NoRepoSrc == Src("norepo", "github-raw-file", "", "", <<[path |-> "dist/a.js", out_name |-> ""]>>)
UnknownSrc == Src("odd", "s3-bucket", "r3", "", <<>>)
NoPkgSrc == Src("", "github-raw-file", "r3", "", <<[path |-> "dist/a.js", out_name |-> ""]>>)

\* external-sources.json
Configs ==
  {<<SemverSrc>>, <<AssetSrc, RawSrc>>, <<AssetStableSrc>>,
   <<NoRepoSrc, UnknownSrc, NoPkgSrc, RawSrc>>, <<SemverSrc, RawSrc>>}

V(core, rest) == S(TRUE, core, rest)

\* the releases the semver repository may publish
SemverCatalogue ==
  {Release(V(<<1, 0, 0>>, ""), FALSE, FALSE, <<Asset("a.js", <<1>>)>>),
   Release(V(<<1, 1, 0>>, ""), FALSE, FALSE, <<Asset("a.js", <<2>>), Asset("b.js", <<2, 2>>)>>),
   Release(V(<<1, 2, 0>>, ""), TRUE, FALSE, <<Asset("a.js", <<3>>)>>),
   Release(V(<<2, 0, 0>>, "-beta.1"), TRUE, FALSE, <<Asset("a.js", <<4>>)>>),
   Release(V(<<2, 0, 0>>, "-rc.1"), TRUE, FALSE, <<Asset("a.js", <<8>>)>>),
   Release(V(<<1, 3>>, ""), FALSE, FALSE, <<Asset("a.js", <<5>>)>>),
   Release(V(<<1, 4, 0>>, ""), FALSE, FALSE, <<Asset("readme.txt", <<6>>)>>),
   Release(V(<<1, 5, 0>>, ""), FALSE, FALSE,
           <<Asset("a.js", <<7>>), Asset("manifest.json", <<7, 7>>)>>)}

\* the releases /releases/latest of the release-asset repository may name
AssetCatalogue ==
  {Release(V(<<1, 4, 0>>, ""), FALSE, FALSE, <<Asset("foo.js", <<1>>)>>),
   Release(V(<<1, 5, 0>>, ""), FALSE, FALSE, <<Asset("b.js", <<2>>)>>),
   Release(V(<<1, 6, 0>>, "-beta.1"), FALSE, FALSE, <<Asset("a.js", <<3>>)>>),
   Release(V(<<1, 7, 0>>, "+exp-1"), FALSE, FALSE, <<Asset("a.js", <<4>>)>>)}

\* the commits the configured ref may resolve to, with their files
Commits == {Sha("aaaaaaaaaaaa", "1"), Sha("bbbbbbbbbbbb", "2")}
Tree(sha) ==
  IF sha.head = "aaaaaaaaaaaa" THEN [y \in {"dist/a.js"} |-> <<1>>]
  ELSE [y \in {"dist/a.js"} |-> <<2>>]

Repos == {"r1", "r2", "r3"}

(***************************************************************************)
(* State                                                                   *)
(***************************************************************************)
VARIABLES
  cfg,          \* external-sources.json: the sequence of sources
  strict,       \* FAIL_ON_EXTERNAL_ERROR === "1" in the last run
  upstream,     \* repository -> what the host shows
  dirs,         \* public/<pkg>/: package -> directory name -> directory
  versionsJson, \* public/<pkg>/versions.json: package -> entries
  indexJson,    \* public/_index/index.json
  stateJson,    \* public/_index/external-state.json
  bundleJson,   \* public/_index/bundle-manifest.json
  reportJson,   \* public/_index/sync-report.json
  exitCode,     \* exit status of the last run
  clock,        \* number of runs so far; builtAt of a run is its number
  events,       \* number of upstream changes so far
  hist,         \* the last run: disk before it, upstreams seen, fault
  pending,      \* file operations left of the publishExternal in progress
  reader,       \* a client reading public/<pkg>/@latest/ over HTTP
  wall          \* the wall clock, when each version was last published and the
                \* meta block of the last publish

vars == <<cfg, strict, upstream, dirs, versionsJson, indexJson, stateJson, bundleJson,
          reportJson, exitCode, clock, events, hist, pending, reader, wall>>

Disk == [dirs |-> dirs, versions |-> versionsJson, index |-> indexJson,
         state |-> stateJson, bundle |-> bundleJson, report |-> reportJson]

\* midnight, nothing published
NoWall == [now |-> [sec |-> 0, ms |-> 0], at |-> EmptyDir, meta |-> "null"]

\* a client that has read nothing
NoReader ==
  [order |-> "none", got |-> EmptyDir, manifest |-> [read |-> FALSE, found |-> FALSE],
   touched |-> FALSE, cleared |-> FALSE, rebuilt |-> FALSE, reads |-> 0]

Uses(type) == \E i \in 1..Len(cfg) : cfg[i].type = type

InitFrom(configs) ==
  /\ cfg \in configs
  /\ strict = FALSE
  /\ upstream = [r \in Repos |->
                   IF r = "r3" THEN Upstream(NoRelease, <<>>, <<>>, Sha("aaaaaaaaaaaa", "1"),
                                             Tree(Sha("aaaaaaaaaaaa", "1")))
                   ELSE NoUpstream]
  /\ dirs = EmptyDir
  /\ versionsJson = EmptyDir
  /\ indexJson = NoIndex
  /\ stateJson = EmptyDir
  /\ bundleJson = NoBundle
  /\ reportJson = NoReport
  /\ exitCode = 0
  /\ clock = 0
  /\ events = 0
  /\ hist = [before |-> [dirs |-> EmptyDir, versions |-> EmptyDir, index |-> NoIndex,
                         state |-> EmptyDir, bundle |-> NoBundle, report |-> NoReport],
             up |-> [r \in Repos |-> NoUpstream],
             upPrev |-> [r \in Repos |-> NoUpstream],
             net |-> NoFault, netPrev |-> NoFault]
  /\ pending = <<>>
  /\ reader = NoReader
  /\ wall = NoWall

Init == InitFrom(Configs)

\* if (changed) { ... writeJson(stateFp, state); buildBundleManifest(...) }
IfChanged(changed, new, old) == IF changed THEN new ELSE old

\* mutant: strict-failure mode is not consulted
ExitStatus_IgnoresEnv(hadFailure, env) == IF hadFailure THEN 1 ELSE 0

\* the exit strategy: process.exit(1) when a source failed and
\* FAIL_ON_EXTERNAL_ERROR is "1", the normal end otherwise
ExitStatus(hadFailure, env) == IF hadFailure /\ env THEN 1 ELSE 0

\* one run of sync-external.mjs, from loading the state to the exit status;
\* net names the download that fails
RunWith(net) ==
  /\ clock < MaxRuns
  /\ \E env \in BOOLEAN :
       LET builtAt == clock + 1
           c0 == [dirs |-> dirs, versions |-> versionsJson, index |-> indexJson,
                  state |-> stateJson, changed |-> FALSE, hadFailure |-> FALSE,
                  results |-> <<>>, thrown |-> FALSE, killed |-> FALSE]
       IN \E c \in {Loop(c0, cfg, upstream, builtAt, net, Len(cfg))} :
            /\ dirs' = c.dirs
            /\ versionsJson' = c.versions
            /\ indexJson' = c.index
            /\ stateJson' = IfChanged(c.changed, c.state, stateJson)
            /\ bundleJson' = IfChanged(c.changed,
                                       buildBundleManifest(c.dirs, c.versions, c.index, builtAt),
                                       bundleJson)
            /\ reportJson' = [generated_at |-> builtAt, changed |-> c.changed,
                              failures |-> Failures(c.results), results |-> c.results]
            /\ strict' = env
            /\ exitCode' = ExitStatus(c.hadFailure, env)
            /\ clock' = clock + 1
            /\ hist' = [before |-> Disk, up |-> upstream, upPrev |-> hist.up, net |-> net,
                        netPrev |-> hist.net]
  /\ UNCHANGED <<cfg, upstream, events, pending, reader, wall>>

\* a run in which every download succeeds
Run == RunWith(NoFault)

\* a run in which the download for one channel target fails
FaultyRun == \E net \in Net \ {NoFault} : RunWith(net)

\* a run killed while it publishes one pointer: the directories and index
\* files written so far stay; the state file, the bundle manifest and the
\* report, all written after the loop, are not written, and the exit
\* strategy is never reached. The kill is bounded to the last run but one,
\* after a lenient run that published and with upstream settled.
KilledRun ==
  /\ clock = MaxRuns - 2
  /\ reportJson.changed /\ ~strict
  /\ events = MaxEvents
  /\ \E pointer \in {"latest", "stable", "beta"}, at \in 0..MaxKill :
       LET net == Kill(pointer, at)
           c0 == [dirs |-> dirs, versions |-> versionsJson, index |-> indexJson,
                  state |-> stateJson, changed |-> FALSE, hadFailure |-> FALSE,
                  results |-> <<>>, thrown |-> FALSE, killed |-> FALSE]
       IN \E c \in {Loop(c0, cfg, upstream, clock + 1, net, Len(cfg))} :
            /\ c.killed
            /\ dirs' = c.dirs
            /\ versionsJson' = c.versions
            /\ indexJson' = c.index
            /\ clock' = clock + 1
            /\ hist' = [before |-> Disk, up |-> upstream, upPrev |-> hist.up, net |-> net,
                        netPrev |-> hist.net]
  /\ UNCHANGED <<cfg, strict, upstream, stateJson, bundleJson, reportJson, exitCode, events,
                 pending, reader, wall>>

\* the host's latest release is a published, non-prerelease release
Eligible(r) == ~r.prerelease /\ ~r.draft

HasTag(rels, tag) == \E i \in 1..Len(rels) : rels[i].tag_name = tag

\* upstream publishes a release; the host lists the newest first
AddRelease ==
  /\ events < MaxEvents
  /\ Uses("github-release-assets-semver")
  /\ \E r \in SemverCatalogue, makeLatest \in BOOLEAN :
       LET u == upstream["r1"]
       IN /\ ~HasTag(u.releases, r.tag_name)
          /\ makeLatest => Eligible(r)
          /\ (Eligible(r) /\ u.latest = NoRelease) => makeLatest
          /\ upstream' = [upstream EXCEPT !["r1"] =
                            [u EXCEPT !.releases = <<r>> \o @,
                                      !.tags = <<r.tag_name>> \o @,
                                      !.latest = IF makeLatest THEN r ELSE @]]
  /\ events' = events + 1
  /\ UNCHANGED <<cfg, strict, dirs, versionsJson, indexJson, stateJson, bundleJson,
                 reportJson, exitCode, clock, hist, pending, reader, wall>>

\* upstream marks another of its releases as the latest
MarkLatest ==
  /\ events < MaxEvents
  /\ Uses("github-release-assets-semver")
  /\ \E i \in 1..Len(upstream["r1"].releases) :
       LET r == upstream["r1"].releases[i]
       IN /\ Eligible(r)
          /\ r # upstream["r1"].latest
          /\ upstream' = [upstream EXCEPT !["r1"].latest = r]
  /\ events' = events + 1
  /\ UNCHANGED <<cfg, strict, dirs, versionsJson, indexJson, stateJson, bundleJson,
                 reportJson, exitCode, clock, hist, pending, reader, wall>>

\* the release-asset repository gets a new latest release
NewLatest ==
  /\ events < MaxEvents
  /\ Uses("github-release-asset")
  /\ \E r \in AssetCatalogue :
       /\ r # upstream["r2"].latest
       /\ upstream' = [upstream EXCEPT !["r2"].latest = r]
  /\ events' = events + 1
  /\ UNCHANGED <<cfg, strict, dirs, versionsJson, indexJson, stateJson, bundleJson,
                 reportJson, exitCode, clock, hist, pending, reader, wall>>

\* the configured ref of the raw-file repository moves to another commit
MoveRef ==
  /\ events < MaxEvents
  /\ Uses("github-raw-file")
  /\ \E sha \in Commits :
       /\ sha # upstream["r3"].head
       /\ upstream' = [upstream EXCEPT !["r3"].head = sha, !["r3"].tree = Tree(sha)]
  /\ events' = events + 1
  /\ UNCHANGED <<cfg, strict, dirs, versionsJson, indexJson, stateJson, bundleJson,
                 reportJson, exitCode, clock, hist, pending, reader, wall>>

Next == Run \/ AddRelease \/ MarkLatest \/ NewLatest \/ MoveRef

Spec == Init /\ [][Next]_vars

NextFaults == Next \/ FaultyRun

\* the pipeline with failing downloads
SpecFaults == Init /\ [][NextFaults]_vars

\* external-state.json is lost between two runs: the next run reads {}
LoseState ==
  /\ events < MaxEvents
  /\ clock > 0
  /\ stateJson # EmptyDir
  /\ stateJson' = EmptyDir
  /\ events' = events + 1
  /\ UNCHANGED <<cfg, strict, upstream, dirs, versionsJson, indexJson, bundleJson,
                 reportJson, exitCode, clock, hist, pending, reader, wall>>

\* the pipeline when the state file may be lost
InitLoss == InitFrom({<<SemverSrc>>, <<AssetSrc, RawSrc>>})

NextLoss == Next \/ LoseState

SpecLoss == InitLoss /\ [][NextLoss]_vars

\* the pipeline when a run may be killed
InitCrash == InitFrom({<<SemverSrc>>, <<AssetStableSrc>>})

NextCrash == Run \/ KilledRun \/ AddRelease \/ MarkLatest \/ NewLatest

SpecCrash == InitCrash /\ [][NextCrash]_vars

\* the process is killed after the loop, inside the `if (changed)` block
KillLate(stateWritten) ==
  [kind |-> "kill", target |-> IF stateWritten THEN "buildBundleManifest" ELSE "writeJson",
   at |-> 0]

\* a run whose loop changed something and that is killed after the loop:
\* either before writeJson(stateFp, state), or after it and before
\* buildBundleManifest; the bundle manifest and the report are not written
\* and the exit strategy is never reached. The kill is bounded to the runs
\* that another run can follow.
KilledAfterLoop ==
  /\ clock < MaxRuns - 1
  /\ \E stateWritten \in BOOLEAN :
       LET c0 == [dirs |-> dirs, versions |-> versionsJson, index |-> indexJson,
                  state |-> stateJson, changed |-> FALSE, hadFailure |-> FALSE,
                  results |-> <<>>, thrown |-> FALSE, killed |-> FALSE]
       IN \E c \in {Loop(c0, cfg, upstream, clock + 1, NoFault, Len(cfg))} :
            /\ c.changed
            /\ dirs' = c.dirs
            /\ versionsJson' = c.versions
            /\ indexJson' = c.index
            /\ stateJson' = IF stateWritten THEN c.state ELSE stateJson
            /\ clock' = clock + 1
            /\ hist' = [before |-> Disk, up |-> upstream, upPrev |-> hist.up,
                        net |-> KillLate(stateWritten), netPrev |-> hist.net]
  /\ UNCHANGED <<cfg, strict, upstream, bundleJson, reportJson, exitCode, events,
                 pending, reader, wall>>

NextLateKill == Run \/ KilledAfterLoop \/ AddRelease \/ MarkLatest \/ NewLatest

\* runs that may be killed between the loop and the bundle manifest
SpecLateKill == InitCrash /\ [][NextLateKill]_vars

\* the pipeline for a source that builds from the repository snapshot
InitBuild == InitFrom({<<BuildSrc>>})

NextBuild == Run \/ AddRelease \/ MarkLatest

SpecBuild == InitBuild /\ [][NextBuild]_vars

\* the directories of a package on a disk
PkgDirs(ds, pkg) == IF pkg \in DOMAIN ds THEN ds[pkg] ELSE EmptyDir

(***************************************************************************)
(* publishExternal one file operation at a time, with a client reading the *)
(* @latest pointer of the package while it is rebuilt                      *)
(***************************************************************************)
ReaderPkg == "lib"

\* the releases published while the client reads
ReaderCatalogue ==
  {Release(V(<<1, 0, 0>>, ""), FALSE, FALSE, <<Asset("a.js", <<1>>)>>),
   Release(V(<<1, 1, 0>>, ""), FALSE, FALSE, <<Asset("a.js", <<2>>), Asset("b.js", <<2, 2>>)>>)}

\* the files the client asks for
ReaderFiles == {"a.js", "b.js"}

InitReader == Init /\ cfg = <<SemverSrc>>

\* publishFromRelease calls publishExternal for the @latest pointer
StartPublish ==
  /\ pending = <<>>
  /\ clock < MaxPublishes
  /\ \E r \in ReaderCatalogue :
       LET version == normalizeUpstreamTagToVersion(r.tag_name)
           prov == [type |-> "github-release", repo |-> "r1", tag |-> r.tag_name,
                    commit |-> NoSha]
       IN pending' = publishExternal(ReaderPkg, version, detectChannelFromVersion(version),
                                     clock + 1, prov,
                                     downloadReleaseAssets(r.assets, AllNames), "null",
                                     "latest")
  /\ clock' = clock + 1
  /\ UNCHANGED <<cfg, strict, upstream, dirs, versionsJson, indexJson, stateJson, bundleJson,
                 reportJson, exitCode, events, hist, reader, wall>>

\* the next file operation of publishExternal; an exception ends the publish
FileOp ==
  /\ pending # <<>>
  /\ \E o \in {Head(pending)}, pd \in {PkgDirs(dirs, ReaderPkg)} :
       IF OpThrows(pd, o)
       THEN /\ pending' = <<>>
            /\ UNCHANGED <<dirs, reader>>
       ELSE /\ pending' = Tail(pending)
            /\ dirs' = Put(dirs, ReaderPkg, ApplyOp(pd, o))
            /\ reader' =
                 IF o.dir = LatestDir /\ DOMAIN reader.got # {} /\ ~reader.manifest.read
                 THEN [reader EXCEPT
                         !.touched = TRUE,
                         !.cleared = @ \/ o.op = "rmrf",
                         !.rebuilt = @ \/ (reader.cleared /\ o.op = "writeJson")]
                 ELSE reader
  /\ UNCHANGED <<cfg, strict, upstream, versionsJson, indexJson, stateJson, bundleJson,
                 reportJson, exitCode, clock, events, hist, wall>>

\* the client starts, deciding when it will fetch manifest.json
BeginRead ==
  /\ reader.reads < MaxReads
  /\ reader.order = "none" \/ reader.manifest.read
  /\ \E order \in {"manifestLast", "manifestFirst"} :
       reader' = [NoReader EXCEPT !.order = order, !.reads = reader.reads + 1]
  /\ UNCHANGED <<cfg, strict, upstream, dirs, versionsJson, indexJson, stateJson, bundleJson,
                 reportJson, exitCode, clock, events, hist, pending, wall>>

\* GET <pkg>/@latest/<name>: the bytes, or 404
ReadFile ==
  /\ reader.order # "none"
  /\ reader.order = "manifestLast" => ~reader.manifest.read
  /\ reader.order = "manifestFirst" => reader.manifest.read
  /\ \E name \in ReaderFiles \ DOMAIN reader.got, pd \in {PkgDirs(dirs, ReaderPkg)} :
       reader' = [reader EXCEPT !.got =
                    Put(@, name,
                        IF LatestDir \in DOMAIN pd /\ name \in DOMAIN pd[LatestDir]
                        THEN [found |-> TRUE, buf |-> pd[LatestDir][name]]
                        ELSE [found |-> FALSE])]
  /\ UNCHANGED <<cfg, strict, upstream, dirs, versionsJson, indexJson, stateJson, bundleJson,
                 reportJson, exitCode, clock, events, hist, pending, wall>>

\* GET <pkg>/@latest/manifest.json: the manifest, or 404
ReadManifest ==
  /\ reader.order # "none"
  /\ ~reader.manifest.read
  /\ reader.order = "manifestFirst" => DOMAIN reader.got = {}
  /\ \E pd \in {PkgDirs(dirs, ReaderPkg)} :
       reader' = [reader EXCEPT !.manifest =
                    IF HasManifest(pd, LatestDir)
                    THEN [read |-> TRUE, found |-> TRUE, doc |-> pd[LatestDir][ManifestName].doc]
                    ELSE [read |-> TRUE, found |-> FALSE]]
  /\ UNCHANGED <<cfg, strict, upstream, dirs, versionsJson, indexJson, stateJson, bundleJson,
                 reportJson, exitCode, clock, events, hist, pending, wall>>

NextReader == StartPublish \/ FileOp \/ BeginRead \/ ReadFile \/ ReadManifest

\* a publish in steps, with a concurrent client
SpecReader == InitReader /\ [][NextReader]_vars

(***************************************************************************)
(* updateIndexes under a wall clock that shows milliseconds: successive    *)
(* runs may start within one second of each other                          *)
(***************************************************************************)
\* the milliseconds the wall clock may show
Millis == {0, 250, 500}

Instants == [sec : 0..MaxSec, ms : Millis]

Later(t, u) == t.sec > u.sec \/ (t.sec = u.sec /\ t.ms > u.ms)

\* new Date().toISOString().replace(".000Z", "Z"), the string being
\* represented by its place in the order of localeCompare: within one second
\* "...:ss.001Z" < ... < "...:ss.999Z" < "...:ssZ", "." collating before "Z"
ISOStamp(t) == t.sec * 1000 + (IF t.ms = 0 THEN 999 ELSE t.ms - 1)

\* the versions that are published
IndexVersions == {V(<<1, 0, 0>>, ""), V(<<1, 1, 0>>, ""), V(<<2, 0, 0>>, "-beta.1")}

\* the meta blocks a publish may provide; "null" when it provides none
Metas == {"null", "m1", "m2"}

InitIndex == Init /\ cfg = <<SemverSrc>>

\* the next run starts later
Tick ==
  /\ \E t \in Instants : Later(t, wall.now) /\ wall' = [wall EXCEPT !.now = t]
  /\ UNCHANGED <<cfg, strict, upstream, dirs, versionsJson, indexJson, stateJson, bundleJson,
                 reportJson, exitCode, clock, events, hist, pending, reader>>

\* the run that started at wall.now publishes a version: updateIndexes
PublishIndex ==
  /\ \E version \in IndexVersions, meta \in Metas :
       \E r \in {updateIndexes([versions |-> versionsJson, index |-> indexJson], ReaderPkg,
                                version, detectChannelFromVersion(stripV(version)),
                                ISOStamp(wall.now), meta)} :
         /\ versionsJson' = r.versions
         /\ indexJson' = r.index
         /\ wall' = [wall EXCEPT !.at = Put(@, version, wall.now), !.meta = meta]
  /\ UNCHANGED <<cfg, strict, upstream, dirs, stateJson, bundleJson,
                 reportJson, exitCode, clock, events, hist, pending, reader>>

NextIndex == Tick \/ PublishIndex

SpecIndex == InitIndex /\ [][NextIndex]_vars

(***************************************************************************)
(* Observations used by the properties                                     *)
(***************************************************************************)
Pkgs == {cfg[i].package : i \in 1..Len(cfg)}

\* the integrity digest of every file of every directory of a package
Digests(pd) == [d \in DOMAIN pd |-> [n \in DOMAIN pd[d] |-> sriSha384(pd[d][n])]]

Rows == reportJson.results
PrevRows == hist.before.report.results

RowsOf(rows, pkg) == {i \in 1..Len(rows) : rows[i].package = pkg}

\* the source of the package was reported, and with no FAIL
Succeeded(rows, pkg) ==
  /\ RowsOf(rows, pkg) # {}
  /\ \A i \in RowsOf(rows, pkg) : rows[i].status # "FAIL"

\* the source of the package was reported SKIP
Skipped(rows, pkg) ==
  /\ RowsOf(rows, pkg) # {}
  /\ \A i \in RowsOf(rows, pkg) : rows[i].status = "SKIP"

Published(rows, pkg) == \E i \in RowsOf(rows, pkg) : rows[i].status = "OK"

\* two runs in succession saw the same upstream
TwoRunsSameUpstream == clock >= 2 /\ hist.up = hist.upPrev

(***************************************************************************)
(* C1  Idempotency.                                                        *)
(***************************************************************************)
\* C1 as stated: when two successive runs see the same upstream, the
\* second run reports SKIP for every configured source and every file of
\* every directory keeps its integrity digest.
C1_AllSkipSecondRun ==
  TwoRunsSameUpstream =>
    \A pkg \in Pkgs :
      /\ Skipped(Rows, pkg)
      /\ Digests(PkgDirs(dirs, pkg)) = Digests(PkgDirs(hist.before.dirs, pkg))

\* C1 amended: when two successive runs see the same upstream, every source
\* that the first run reported without a FAIL is reported SKIP by the second
\* run, and every file of every directory of its package keeps its
\* integrity digest.
C1_Idempotent ==
  TwoRunsSameUpstream =>
    \A pkg \in Pkgs :
      Succeeded(PrevRows, pkg) =>
        /\ Skipped(Rows, pkg)
        /\ Digests(PkgDirs(dirs, pkg)) = Digests(PkgDirs(hist.before.dirs, pkg))

\* a source published by the first run is skipped by the second
C1_Witness ==
  /\ TwoRunsSameUpstream
  /\ \E pkg \in Pkgs :
       /\ Succeeded(PrevRows, pkg)
       /\ Published(PrevRows, pkg)
       /\ Skipped(Rows, pkg)
       /\ LatestDir \in DOMAIN PkgDirs(dirs, pkg)

(***************************************************************************)
(* Observations of a release-assets-semver source                          *)
(***************************************************************************)
\* a directory of a package, empty when absent
DirOr(pd, name) == IF name \in DOMAIN pd THEN pd[name] ELSE EmptyDir

\* the version named by the manifest of a directory
ManifestVersion(pd, name) ==
  IF HasManifest(pd, name) THEN pd[name][ManifestName].doc.version ELSE EmptyStr

\* the version string has a pre-release component: a "-" right after the
\* numeric core ("+exp-1" is build metadata)
HasPrerelease(version) == version.rest \in {"-beta.1", "-rc.1"}

\* a directory name of the shape v<major> or v<major>.<minor>
IsAlias(name) == name.v /\ name.rest = "" /\ Len(name.core) \in {1, 2}

\* the latest tag a run resolves for the repository
SeenLatestTag(up) ==
  IF up.latest.tag_name # EmptyStr THEN up.latest.tag_name ELSE getHighestSemverTag(up.tags)

LibBefore == PkgDirs(hist.before.dirs, "lib")
LibNow == PkgDirs(dirs, "lib")

\* since the previous run exactly one release appeared upstream, it is the
\* new beta target, and the latest tag and the stable target are the same
OnlyNewPrerelease ==
  /\ cfg = <<SemverSrc>>
  /\ clock >= 2
  /\ LET u == hist.up["r1"]
         p == hist.upPrev["r1"]
     IN /\ u.releases # <<>>
        /\ Tail(u.releases) = p.releases
        /\ u.latest = p.latest
        /\ SeenLatestTag(u) = SeenLatestTag(p)
        /\ Target(u.releases, FALSE) = Target(p.releases, FALSE)
        /\ Target(u.releases, TRUE).r = Head(u.releases)

\* the last run republished the beta target and nothing else
OnlyBetaRepublished ==
  /\ cfg = <<SemverSrc>>
  /\ clock >= 1
  /\ LET b == Target(hist.up["r1"].releases, TRUE)
         old == StateOf(hist.before.state, "lib")
         new == StateOf(stateJson, "lib")
     IN /\ Rows = <<Row("lib", SemverSrc.type, b.tag, "publish", "OK")>>
        /\ new.beta_key # old.beta_key
        /\ new.latest_key = old.latest_key
        /\ new.stable_key = old.stable_key

\* the version the last run published to @beta
BetaVersion == PrefixV(normalizeUpstreamTagToVersion(Target(hist.up["r1"].releases, TRUE).tag))

LibIndex(ix) ==
  IF "lib" \in DOMAIN ix.packages THEN ix.packages["lib"]
  ELSE [last_stable |-> NullEntry, last_beta |-> NullEntry, last_latest |-> NullEntry,
        meta |-> "null"]

LibVersions(vj) == IF "lib" \in DOMAIN vj THEN vj["lib"] ELSE <<>>

(***************************************************************************)
(* C2  Channel independence (pointers).                                    *)
(***************************************************************************)
\* C2: when the only upstream change since the previous run is a new
\* prerelease that becomes the beta target, the run leaves the @latest and
\* @stable directories byte-identical and, when it reports the publish OK,
\* @beta holds the new prerelease.
C2_BetaLeavesLatestAndStable ==
  OnlyNewPrerelease =>
    /\ DirOr(LibNow, LatestDir) = DirOr(LibBefore, LatestDir)
    /\ DirOr(LibNow, StableDir) = DirOr(LibBefore, StableDir)
    /\ Published(Rows, "lib") => ManifestVersion(LibNow, BetaDir) = BetaVersion

(***************************************************************************)
(* C3  Channel independence (aliases).                                     *)
(***************************************************************************)
\* C3: a run in which only the beta target is republished leaves every
\* existing v<major> and v<major>.<minor> alias directory byte-identical.
C3_BetaLeavesAliases ==
  OnlyBetaRepublished =>
    \A a \in DOMAIN LibBefore :
      IsAlias(a) => a \in DOMAIN LibNow /\ LibNow[a] = LibBefore[a]

ManifestMatches(dir) ==
  LET files == dir[ManifestName].doc.files
  IN \A n \in DOMAIN files :
       /\ n \in DOMAIN dir
       /\ files[n].integrity = sriSha384(dir[n])
       /\ files[n].bytes = ByteLength(dir[n])

\* C5: after a run in which a publish of the package completed, every file
\* listed in the manifest of each channel pointer and alias directory is
\* present there with the sha384 digest and byte length the manifest records.
C5_PointersMatchManifest ==
  \A pkg \in Pkgs :
    (clock >= 1 /\ Published(Rows, pkg)) =>
      \A d \in DOMAIN PkgDirs(dirs, pkg) :
        ((d \in {LatestDir, StableDir, BetaDir} \/ IsAlias(d))
           /\ HasManifest(PkgDirs(dirs, pkg), d))
          => ManifestMatches(PkgDirs(dirs, pkg)[d])

(***************************************************************************)
(* C6  Reader guarantee under concurrent publish.                          *)
(***************************************************************************)
\* every file the client obtained is listed in the manifest it obtained,
\* with the digest of the bytes it obtained
ReaderPairConsistent ==
  \A n \in DOMAIN reader.got :
    reader.got[n].found =>
      /\ n \in DOMAIN reader.manifest.doc.files
      /\ reader.manifest.doc.files[n].integrity = sriSha384(reader.got[n].buf)

ReaderGotFile == \E n \in DOMAIN reader.got : reader.got[n].found

AliasCandidates(vs, a) ==
  {i \in 1..Len(vs) :
     /\ vs[i].channel = "stable"
     /\ ~HasPrerelease(vs[i].version)
     /\ semverValid(semverCoerce(stripV(vs[i].version)))
     /\ a \in {AliasMajorDir(semverCoerce(stripV(vs[i].version))),
               AliasMinorDir(semverCoerce(stripV(vs[i].version)))}}

\* the one published last: the newest built_at, and among the entries of one
\* run the one upserted last
MostRecent(vs, is) ==
  CHOOSE i \in is : \A j \in is : vs[j].built_at < vs[i].built_at
                                    \/ (vs[j].built_at = vs[i].built_at /\ j <= i)

\* C7: every v<major> and v<major>.<minor> directory of a package holds the
\* files and manifest of the most recently published stable, non-prerelease
\* version with that major (major.minor); a package published with channel
\* null has none.
C7_AliasMirrorsLastStable ==
  \A pkg \in Pkgs :
    \A a \in DOMAIN PkgDirs(dirs, pkg) :
      IsAlias(a) =>
        LET vs == IF pkg \in DOMAIN versionsJson THEN versionsJson[pkg] ELSE <<>>
            is == AliasCandidates(vs, a)
        IN /\ is # {}
           /\ vs[MostRecent(vs, is)].version \in DOMAIN PkgDirs(dirs, pkg)
           /\ PkgDirs(dirs, pkg)[a] = PkgDirs(dirs, pkg)[vs[MostRecent(vs, is)].version]

(***************************************************************************)
(* C8  Alias non-regression.                                               *)
(***************************************************************************)
\* the last row of the run reports the publish of a version of the stable
\* channel
LastPublishedStable ==
  /\ cfg = <<SemverSrc>>
  /\ clock >= 1
  /\ Rows # <<>>
  /\ Rows[Len(Rows)].status = "OK"
  /\ LET version == normalizeUpstreamTagToVersion(Rows[Len(Rows)].upstream)
     IN version.core # <<>> /\ detectChannelFromVersion(version) = "stable"

LastVersion == normalizeUpstreamTagToVersion(Rows[Len(Rows)].upstream)

\* v<major> and v<major>.<minor> of a version string
MajorAlias(version) == S(TRUE, SubSeq(Pad3(version.core), 1, 1), "")
MinorAlias(version) == S(TRUE, SubSeq(Pad3(version.core), 1, 2), "")

\* the v<major> alias mirrored a higher version before the run
AliasWasHigher ==
  /\ LastPublishedStable
  /\ HasManifest(LibBefore, MajorAlias(LastVersion))
  /\ semverHigher(semverCoerce(stripV(ManifestVersion(LibBefore, MajorAlias(LastVersion)))),
                  semverCoerce(LastVersion))

\* C8 as stated: publishing a lower stable version after a higher one with
\* the same major leaves the v<major> alias mirroring the higher version.
C8_AliasKeepsHigher ==
  AliasWasHigher =>
    ManifestVersion(LibNow, MajorAlias(LastVersion))
      = ManifestVersion(LibBefore, MajorAlias(LastVersion))

\* C8 amended: after the publish of a stable version the v<major> and
\* v<major>.<minor> aliases hold the files and manifest of that version,
\* also when they mirrored a higher version before.
C8_AliasFollowsPublish ==
  LastPublishedStable =>
    /\ PrefixV(LastVersion) \in DOMAIN LibNow
    /\ DirOr(LibNow, MajorAlias(LastVersion)) = LibNow[PrefixV(LastVersion)]
    /\ DirOr(LibNow, MinorAlias(LastVersion)) = LibNow[PrefixV(LastVersion)]

\* a lower version was published over an alias that mirrored a higher one
C8_Witness ==
  /\ AliasWasHigher
  /\ ManifestVersion(LibNow, MajorAlias(LastVersion)) = PrefixV(LastVersion)

(***************************************************************************)
(* C9  Index monotonicity.                                                 *)
(***************************************************************************)
\* C9: after every run, for every package, index.json and versions.json
\* exist together and last_latest is the first entry of versions.json.
C9_LastLatestIsFirst ==
  /\ DOMAIN indexJson.packages = DOMAIN versionsJson
  /\ \A pkg \in DOMAIN versionsJson :
       /\ versionsJson[pkg] # <<>>
       /\ indexJson.packages[pkg].last_latest = versionsJson[pkg][1]

\* a package with two indexed versions
C9_Witness ==
  \E pkg \in DOMAIN versionsJson :
    /\ Len(versionsJson[pkg]) >= 2
    /\ indexJson.packages[pkg].last_latest = versionsJson[pkg][1]
    /\ versionsJson[pkg][1].built_at > versionsJson[pkg][2].built_at

(***************************************************************************)
(* C10  Raw-file immutability.                                             *)
(***************************************************************************)
RawBefore == PkgDirs(hist.before.dirs, "raw")
RawNow == PkgDirs(dirs, "raw")

\* the version directories: every directory but the channel pointers
VersionDirs(pd) == DOMAIN pd \ {LatestDir, StableDir, BetaDir}

\* the commit the last run resolved the ref to
RawHead == hist.up["r3"].head

\* the version directory named from the first 12 characters of the commit id
RawHeadDir == S(TRUE, <<>>, RawHead.head)

RawRan == clock >= 1 /\ "raw" \in Pkgs

\* the run saw the commit the state records
RawSameCommit == RawRan /\ StateOf(hist.before.state, "raw").last_commit = RawHead

\* the run saw a commit that was never published
RawNewCommit == RawRan /\ RawHeadDir \notin DOMAIN RawBefore

\* C10: a run that resolves the ref to the recorded commit reports SKIP and
\* creates no version directory; a run that resolves it to a new commit
\* creates exactly one version directory, named from the 12-character commit
\* id, and @latest mirrors it.
C10_RawImmutable ==
  /\ RawSameCommit => Skipped(Rows, "raw") /\ VersionDirs(RawNow) = VersionDirs(RawBefore)
  /\ RawNewCommit =>
       /\ VersionDirs(RawNow) \ VersionDirs(RawBefore) = {RawHeadDir}
       /\ VersionDirs(RawBefore) \subseteq VersionDirs(RawNow)
       /\ HasManifest(RawNow, RawHeadDir)
       /\ DirOr(RawNow, LatestDir) = RawNow[RawHeadDir]

\* a second commit was published next to the first
C10_Witness ==
  /\ RawNewCommit
  /\ VersionDirs(RawBefore) # {}
  /\ Cardinality(VersionDirs(RawNow)) = 2
  /\ ManifestVersion(RawNow, LatestDir) = RawHeadDir

(***************************************************************************)
(* C11  Round-trip for a release-asset source.                             *)
(***************************************************************************)
FooBefore == PkgDirs(hist.before.dirs, "foo")
FooNow == PkgDirs(dirs, "foo")

\* the last run started with nothing stored for the package foo and saw the
\* latest release v1.4.0 with the one asset foo.js
FirstRunSeesV140 ==
  /\ clock >= 1
  /\ \E i \in 1..Len(cfg) : cfg[i].package = "foo" /\ cfg[i].type = "github-release-asset"
  /\ "foo" \notin DOMAIN hist.before.dirs
  /\ "foo" \notin DOMAIN hist.before.state
  /\ "foo" \notin DOMAIN hist.before.versions
  /\ hist.up["r2"].latest
       = Release(V(<<1, 4, 0>>, ""), FALSE, FALSE, <<Asset("foo.js", <<1>>)>>)

\* C11: from an empty state, one run against the latest release v1.4.0 with
\* the asset foo.js writes foo/v1.4.0/foo.js and a manifest whose only file
\* entry is foo.js with the sha384 digest of the asset, makes foo/@latest a
\* copy of that directory, writes a versions.json with the one entry
\* (v1.4.0, stable) and sets last_latest.version to v1.4.0.
C11_RoundTrip ==
  FirstRunSeesV140 =>
    LET vdir == V(<<1, 4, 0>>, "")
    IN /\ vdir \in DOMAIN FooNow
       /\ DOMAIN FooNow[vdir] = {"foo.js", ManifestName}
       /\ FooNow[vdir]["foo.js"] = Bytes(<<1>>)
       /\ FooNow[vdir][ManifestName].kind = "json"
       /\ DOMAIN FooNow[vdir][ManifestName].doc.files = {"foo.js"}
       /\ FooNow[vdir][ManifestName].doc.files["foo.js"].integrity = sriSha384(Bytes(<<1>>))
       /\ FooNow[vdir][ManifestName].doc.version = vdir
       /\ LatestDir \in DOMAIN FooNow
       /\ FooNow[LatestDir] = FooNow[vdir]
       /\ "foo" \in DOMAIN versionsJson
       /\ Len(versionsJson["foo"]) = 1
       /\ versionsJson["foo"][1].version = vdir
       /\ versionsJson["foo"][1].channel = "stable"
       /\ "foo" \in DOMAIN indexJson.packages
       /\ indexJson.packages["foo"].last_latest.version = vdir

\* the run published v1.4.0 of foo from an empty state
C11_Witness ==
  /\ FirstRunSeesV140
  /\ Published(Rows, "foo")
  /\ ManifestVersion(FooNow, LatestDir) = V(<<1, 4, 0>>, "")

(***************************************************************************)
(* C12  Prerelease detection.                                              *)
(***************************************************************************)
\* the packages published from releases
ReleasePkgs == {cfg[i].package : i \in {j \in 1..Len(cfg) : cfg[j].type # "github-raw-file"}}

ChannelOfVersion(version) == IF HasPrerelease(version) THEN "beta" ELSE "stable"

\* C12: the channel recorded for a published release version, in
\* versions.json and in the manifest of every directory, is beta exactly
\* when the version string has a pre-release component and stable
\* otherwise, whichever pointer the publish targeted.
C12_ChannelFromPrerelease ==
  \A pkg \in ReleasePkgs :
    /\ \A i \in 1..Len(IF pkg \in DOMAIN versionsJson THEN versionsJson[pkg] ELSE <<>>) :
         versionsJson[pkg][i].channel = ChannelOfVersion(versionsJson[pkg][i].version)
    /\ \A d \in DOMAIN PkgDirs(dirs, pkg) :
         HasManifest(PkgDirs(dirs, pkg), d) =>
           PkgDirs(dirs, pkg)[d][ManifestName].doc.channel
             = ChannelOfVersion(PkgDirs(dirs, pkg)[d][ManifestName].doc.version)


(***************************************************************************)
(* C13: exit status                                                        *)
(***************************************************************************)
\* the report of the last run has a FAIL row
FailRecorded == \E i \in 1..Len(reportJson.results) : reportJson.results[i].status = "FAIL"

\* C13: the process exits with status 1 exactly when a FAIL outcome was
\* recorded in the run and strict-failure mode was requested, and with
\* status 0 in every other case
C13_ExitStatus ==
  clock > 0 =>
    /\ exitCode \in {0, 1}
    /\ exitCode = 1 <=> (FailRecorded /\ strict)

\* a strict run with a failed source has ended
C13_Witness == clock > 0 /\ FailRecorded /\ strict /\ exitCode = 1

\* a run with a failed source that was not strict has ended with status 0
C13_LenientWitness == clock > 0 /\ FailRecorded /\ ~strict /\ exitCode = 0


(***************************************************************************)
(* C14: source isolation                                                   *)
(***************************************************************************)
\* the packages whose source was reported FAIL in the last run
FailedPkgs == {p \in Pkgs : \E i \in RowsOf(Rows, p) : Rows[i].status = "FAIL"}

NotFailed(src) == src.package \notin FailedPkgs

\* the rows of one package, in the order of the report
RowSeq(rows, pkg) == SelectSeq(rows, LAMBDA r : r.package = pkg)

\* what the last run would have left had its failed sources not been
\* configured: the same disk, the same upstream, the same clock
WithoutFailed ==
  LET c0 == [dirs |-> hist.before.dirs, versions |-> hist.before.versions,
             index |-> hist.before.index, state |-> hist.before.state,
             changed |-> FALSE, hadFailure |-> FALSE, results |-> <<>>, thrown |-> FALSE, killed |-> FALSE]
      rest == SelectSeq(cfg, NotFailed)
  IN CHOOSE x \in {Loop(c0, rest, hist.up, clock, hist.net, Len(rest))} : TRUE

KnownTypes == {"github-release-assets-semver", "github-release-asset", "github-raw-file"}

\* a source that did not fail and is listed after a failed one
AfterFailure(i) ==
  /\ cfg[i].package # ""
  /\ NotFailed(cfg[i])
  /\ \E j \in 1..(i - 1) : ~NotFailed(cfg[j])

IndexOf(index, pkg) == IF pkg \in DOMAIN index.packages THEN index.packages[pkg] ELSE EmptyDir
VersionsOf(versions, pkg) == IF pkg \in DOMAIN versions THEN versions[pkg] ELSE <<>>

\* C14: a source with no repo or of an unknown type is recorded FAIL, every
\* source with a package name is processed whatever happened to the sources
\* before it, and for every source listed after a failed one the report rows, directories, version list, index entry and
\* saved state are those it would have had if the failed sources were absent
C14_SourceIsolation ==
  clock > 0 =>
    \A alt \in {WithoutFailed} :
      /\ \A i \in 1..Len(cfg) :
           cfg[i].package # "" =>
             /\ RowsOf(Rows, cfg[i].package) # {}
             /\ (cfg[i].repo = "" \/ cfg[i].type \notin KnownTypes) =>
                  cfg[i].package \in FailedPkgs
      /\ \A i \in 1..Len(cfg) :
           AfterFailure(i) =>
             \A p \in {cfg[i].package} :
               /\ RowSeq(Rows, p) # <<>>
               /\ RowSeq(Rows, p) = RowSeq(alt.results, p)
               /\ PkgDirs(dirs, p) = PkgDirs(alt.dirs, p)
               /\ VersionsOf(versionsJson, p) = VersionsOf(alt.versions, p)
               /\ IndexOf(indexJson, p) = IndexOf(alt.index, p)
               /\ StateOf(stateJson, p)
                    = StateOf(IF alt.changed THEN alt.state ELSE hist.before.state, p)

\* a source published after an earlier source of the run had failed
C14_Witness ==
  /\ clock > 0
  /\ \E i \in 1..Len(cfg) : AfterFailure(i) /\ Published(Rows, cfg[i].package)

\* a source published after an earlier source had failed part of the way,
\* with one pointer published and another refused
C14_PartialWitness ==
  /\ clock > 0
  /\ \E i \in 1..Len(cfg) : AfterFailure(i) /\ Published(Rows, cfg[i].package)
  /\ \E p \in FailedPkgs : Published(Rows, p)


(***************************************************************************)
(* C15: run report completeness                                            *)
(***************************************************************************)
\* C15: the report of a run has at least one row for every source listed in
\* the configuration, and a source with no package name has a FAIL row
C15_ReportComplete ==
  clock > 0 =>
    /\ reportJson.generated_at = clock
    /\ \A i \in 1..Len(cfg) :
         /\ RowsOf(Rows, cfg[i].package) # {}
         /\ cfg[i].package = "" =>
              \E j \in RowsOf(Rows, cfg[i].package) : Rows[j].status = "FAIL"

\* C15 for the sources that have a package name: every run writes the
\* report, and the report has a row for each of them
C15_NamedSourcesReported ==
  clock > 0 =>
    /\ reportJson.generated_at = clock
    /\ \A i \in 1..Len(cfg) : cfg[i].package # "" => RowsOf(Rows, cfg[i].package) # {}

\* a run whose configuration lists a source with no package name has ended
C15_Witness == clock > 0 /\ \E i \in 1..Len(cfg) : cfg[i].package = ""


(***************************************************************************)
(* C16: change gating                                                      *)
(***************************************************************************)
\* a publish of the last run succeeded
AnyPublished == \E i \in 1..Len(Rows) : Rows[i].status = "OK"

\* what the sources of the last run recorded in memory
StateAfterLoop ==
  LET c0 == [dirs |-> hist.before.dirs, versions |-> hist.before.versions,
             index |-> hist.before.index, state |-> hist.before.state,
             changed |-> FALSE, hadFailure |-> FALSE, results |-> <<>>, thrown |-> FALSE, killed |-> FALSE]
  IN (CHOOSE x \in {Loop(c0, cfg, hist.up, clock, hist.net, Len(cfg))} : TRUE).state

\* the bundle is the one built from the directories and indexes now on disk
BundleIsCurrent ==
  /\ bundleJson.generated_at = clock
  /\ DOMAIN bundleJson.packages = DOMAIN indexJson.packages
  /\ \A pkg \in DOMAIN bundleJson.packages :
       /\ bundleJson.packages[pkg].channels = indexJson.packages[pkg]
       /\ \A ver \in DOMAIN bundleJson.packages[pkg].versions :
            /\ HasManifest(PkgDirs(dirs, pkg), ver)
            /\ bundleJson.packages[pkg].versions[ver].files
                 = PkgDirs(dirs, pkg)[ver][ManifestName].doc.files

\* C16, first half: when a publish of the run succeeded, external-state.json
\* holds what the sources recorded and bundle-manifest.json was rebuilt
C16_PublishPersists ==
  (clock > 0 /\ AnyPublished) =>
    /\ stateJson = StateAfterLoop
    /\ BundleIsCurrent

\* C16, second half as stated: when no publish of the run succeeded,
\* external-state.json, bundle-manifest.json, index.json, every versions.json
\* and every package directory are as they were before the run
C16_NoPublishNoChange ==
  (clock > 0 /\ ~AnyPublished) =>
    /\ stateJson = hist.before.state
    /\ bundleJson = hist.before.bundle
    /\ indexJson = hist.before.index
    /\ versionsJson = hist.before.versions
    /\ dirs = hist.before.dirs

\* C16 as stated: both halves
C16_ChangeGating == C16_PublishPersists /\ C16_NoPublishNoChange


(***************************************************************************)
(* C17: version manifest immutability                                      *)
(***************************************************************************)
\* the directories of a package that hold their own version: the name of
\* the directory is the version its manifest states
OwnVersionDirs(pd) == {d \in VersionDirs(pd) : HasManifest(pd, d) /\ ManifestVersion(pd, d) = d}

\* C17: a manifest.json written for a (package, version) before the last
\* run is still there after it, with the same content (upstream never
\* replaces the assets of a tag in these behaviours)
C17_ManifestImmutable ==
  clock > 0 =>
    \A pkg \in Pkgs :
      \A d \in OwnVersionDirs(PkgDirs(hist.before.dirs, pkg)) :
        /\ HasManifest(PkgDirs(dirs, pkg), d)
        /\ PkgDirs(dirs, pkg)[d][ManifestName] = PkgDirs(hist.before.dirs, pkg)[d][ManifestName]


(***************************************************************************)
(* C18: pointer mirrors one version                                        *)
(***************************************************************************)
ChannelDirs == {LatestDir, StableDir, BetaDir}

\* the pointer directory holds the files and the manifest now stored in the
\* directory of the version its manifest names
MirrorsItsVersion(pd, ptr) ==
  /\ HasManifest(pd, ptr)
  /\ ManifestVersion(pd, ptr) \in DOMAIN pd
  /\ pd[ptr] = pd[ManifestVersion(pd, ptr)]

\* C18: at the end of every run every @latest, @stable and @beta directory
\* on disk is non-empty and equal, manifest included, to the directory of
\* the version its manifest names
C18_PointerMirrorsVersion ==
  clock > 0 =>
    \A pkg \in Pkgs : \A ptr \in ChannelDirs \cap DOMAIN PkgDirs(dirs, pkg) :
      MirrorsItsVersion(PkgDirs(dirs, pkg), ptr)


(***************************************************************************)
(* C19: version index shape                                                *)
(***************************************************************************)
LibEntries == VersionsOf(versionsJson, ReaderPkg)

\* versions.json has one entry for each version published, stamped by its
\* last publish
OneEntryPerVersion ==
  /\ \A i, j \in 1..Len(LibEntries) : LibEntries[i].version = LibEntries[j].version => i = j
  /\ {LibEntries[i].version : i \in 1..Len(LibEntries)} = DOMAIN wall.at
  /\ \A i \in 1..Len(LibEntries) :
       LibEntries[i].built_at = ISOStamp(wall.at[LibEntries[i].version])

\* C19 as stated: after any sequence of publishes versions.json has one
\* entry per version, a publish of a listed version replaces its entry, and
\* the entries are in the order of their publishes, the newest first
C19_IndexShape ==
  /\ OneEntryPerVersion
  /\ \A i, j \in 1..Len(LibEntries) :
       i < j => ~Later(wall.at[LibEntries[j].version], wall.at[LibEntries[i].version])

\* C19 with the order the code keeps: the entries are in descending
\* localeCompare order of their built_at strings
C19_OrderedByStamp ==
  /\ OneEntryPerVersion
  /\ \A i, j \in 1..Len(LibEntries) : i < j => LibEntries[i].built_at >= LibEntries[j].built_at

\* a listed version has been published again, behind two other versions
C19_Witness ==
  /\ Len(LibEntries) = 3
  /\ \E i \in 1..3 : Later(wall.now, wall.at[LibEntries[i].version])
  /\ wall.at[LibEntries[1].version] = wall.now


(***************************************************************************)
(* C20: semver target selection                                            *)
(***************************************************************************)
\* the place of the pre-release component in semver precedence: beta.1
\* before rc.1, and a version with none (build metadata does not count)
\* after both
PreRank(tag) ==
  CASE tag.rest = "-beta.1" -> 1
    [] tag.rest = "-rc.1" -> 2
    [] OTHER -> 3

\* semver precedence of two tags, pre-release identifiers included
TagHigher(a, b) ==
  LET x == Pad3(a.core)
      y == Pad3(b.core)
  IN \/ x[1] > y[1]
     \/ x[1] = y[1] /\ x[2] > y[2]
     \/ x[1] = y[1] /\ x[2] = y[2] /\ x[3] > y[3]
     \/ x = y /\ PreRank(a) > PreRank(b)

\* the listed releases of the kind: not drafts, with a version for a tag,
\* prereleases by the host's flag or by their version
Listed(rels, pre) ==
  {k \in 1..Len(rels) :
     /\ ~rels[k].draft
     /\ Len(rels[k].tag_name.core) > 0
     /\ (rels[k].prerelease \/ HasPrerelease(rels[k].tag_name)) = pre}

\* the tag of the highest listed release of the kind, the first listed among
\* equals
HighestListed(rels, pre) ==
  IF Listed(rels, pre) = {} THEN EmptyStr
  ELSE rels[CHOOSE k \in Listed(rels, pre) :
              \A j \in Listed(rels, pre) :
                /\ ~TagHigher(rels[j].tag_name, rels[k].tag_name)
                /\ j < k => TagHigher(rels[k].tag_name, rels[j].tag_name)].tag_name

\* the tag of the release whose manifest the pointer directory holds
PointerTag(pd, ptr) == IF HasManifest(pd, ptr) THEN pd[ptr][ManifestName].doc.upstream.tag ELSE EmptyStr

\* the last run of the semver source recorded no failure
SemverRunOk == clock > 0 /\ cfg[1] = SemverSrc /\ Succeeded(Rows, "lib")

\* C20: after a run of a release-assets-semver source without failure,
\* @stable holds the listed non-prerelease release that is highest in semver
\* precedence and @beta the listed prerelease that is highest, pre-release
\* identifiers included, the first listed among equals
C20_HighestSemverTargets ==
  SemverRunOk =>
    /\ HighestListed(hist.up["r1"].releases, FALSE) # EmptyStr =>
         PointerTag(LibNow, StableDir) = HighestListed(hist.up["r1"].releases, FALSE)
    /\ HighestListed(hist.up["r1"].releases, TRUE) # EmptyStr =>
         PointerTag(LibNow, BetaDir) = HighestListed(hist.up["r1"].releases, TRUE)


(***************************************************************************)
(* C21: tag-only fallback                                                  *)
(***************************************************************************)
\* the last run found no latest release and took the highest semver tag
\* as its latest target
TagOnlyLatest ==
  /\ clock > 0
  /\ cfg[1].type = "github-release-assets-semver"
  /\ hist.up["r1"].latest = NoRelease
  /\ getHighestSemverTag(hist.up["r1"].tags) # EmptyStr

\* C21: when the latest target comes from the highest semver tag, a source
\* with the build step enabled or with files to fetch configured publishes
\* it to @latest, and any other source records a FAIL
C21_TagFallback ==
  TagOnlyLatest =>
    IF cfg[1].build \/ cfg[1].fetch # <<>>
    THEN PointerTag(LibNow, LatestDir) = getHighestSemverTag(hist.up["r1"].tags)
    ELSE FailRecorded

\* what the code does for every source: the latest target is reported FAIL
\* and @latest is left as it was
C21_TagFallbackAlwaysFails ==
  TagOnlyLatest => FailRecorded /\ DirOr(LibNow, LatestDir) = DirOr(LibBefore, LatestDir)


(***************************************************************************)
(* C22: per-channel failure locality                                       *)
(***************************************************************************)
\* the channel targets of the semver source that needed work in the last
\* run: their identity differs from the one stored before the run
NeededTargets ==
  LET st == StateOf(hist.before.state, "lib")
      u == hist.up["r1"]
      stable == Target(u.releases, FALSE).tag
      beta == Target(u.releases, TRUE).tag
  IN {ch \in {"latest", "stable", "beta"} :
        \/ ch = "latest" /\ st.latest_key # Key("r1", "latest", SeenLatestTag(u))
        \/ ch = "stable" /\ stable # EmptyStr /\ st.stable_key # Key("r1", "stable", stable)
        \/ ch = "beta" /\ beta # EmptyStr /\ st.beta_key # Key("r1", "beta", beta)}

\* the last run of the semver source resolved a latest tag
SemverRan ==
  /\ clock > 0
  /\ cfg[1].type = "github-release-assets-semver"
  /\ SeenLatestTag(hist.up["r1"]) # EmptyStr

\* the publish rows of the package in the last report
PublishRows == {i \in RowsOf(Rows, "lib") : Rows[i].action = "publish"}

\* C22: every channel target of a semver source that needs work is
\* attempted in the run and has its own OK or FAIL row, whatever happened
\* to the targets before it
C22_EveryTargetAttempted ==
  (SemverRan /\ NeededTargets # {}) =>
    /\ Cardinality(PublishRows) = Cardinality(NeededTargets)
    /\ \A i \in PublishRows : Rows[i].upstream # EmptyStr

\* C22 for a target that yields no matching output: the targets after it
\* are attempted all the same
C22_NoOutputIsLocal ==
  (SemverRan /\ NeededTargets # {} /\ \A i \in PublishRows : Rows[i].upstream # EmptyStr) =>
    Cardinality(PublishRows) = Cardinality(NeededTargets)

\* @stable was published in a run in which the latest target failed
C22_StableAfterFailedLatest ==
  /\ SemverRan
  /\ NeededTargets = {"latest", "stable"}
  /\ Cardinality(PublishRows) = 2
  /\ \E i, j \in PublishRows : i < j /\ Rows[i].status = "FAIL" /\ Rows[j].status = "OK"


(***************************************************************************)
(* C23: state loss is harmless                                             *)
(***************************************************************************)
\* the names of the files of a directory with their digests, the manifest
\* apart
FileDigests(dir) == [n \in DOMAIN dir \ {ManifestName} |-> sriSha384(dir[n])]

\* the pointer and alias directories of a package
FloatingDirs(pd) == {d \in DOMAIN pd : d \in ChannelDirs \/ (IsAlias(d) /\ ManifestVersion(pd, d) # d)}

\* the last run started from an empty state although the run before it
\* had succeeded for every source, and saw the upstream that run saw
RanAfterStateLoss ==
  /\ clock >= 2
  /\ hist.before.state = EmptyDir
  /\ hist.up = hist.upPrev
  /\ PrevRows # <<>>
  /\ \A i \in 1..Len(PrevRows) : PrevRows[i].status # "FAIL"

VersionOfEntry(e) == e.version

\* C23: a run that finds the state lost, upstream being as the last
\* successful run saw it, republishes every target; afterwards every
\* pointer and alias directory mirrors the version it mirrored before, with
\* the same file digests, and index.json names the same versions
C23_StateLossHarmless ==
  RanAfterStateLoss =>
    /\ \A i \in 1..Len(Rows) : Rows[i].status = "OK"
    /\ \A pkg \in Pkgs :
         /\ \A d \in FloatingDirs(PkgDirs(hist.before.dirs, pkg)) :
              /\ ManifestVersion(PkgDirs(dirs, pkg), d)
                   = ManifestVersion(PkgDirs(hist.before.dirs, pkg), d)
              /\ FileDigests(DirOr(PkgDirs(dirs, pkg), d))
                   = FileDigests(PkgDirs(hist.before.dirs, pkg)[d])
         /\ \A k \in {"last_stable", "last_beta", "last_latest"} :
              IndexOf(indexJson, pkg)[k].version = IndexOf(hist.before.index, pkg)[k].version

(***************************************************************************)
(* C24: crash recovery                                                     *)
(***************************************************************************)
PointerDirOf(pointer) ==
  CASE pointer = "latest" -> LatestDir
    [] pointer = "stable" -> StableDir
    [] OTHER -> BetaDir

\* the release a pointer targets, as the run selects it
TargetRelease(up, pointer) ==
  CASE pointer = "latest" -> up.latest
    [] pointer = "stable" -> Target(up.releases, FALSE).r
    [] OTHER -> Target(up.releases, TRUE).r

\* the last run completed, the run before it was killed while it published
\* a pointer, and both saw the same upstream
RerunAfterKill ==
  /\ hist.net = NoFault
  /\ hist.netPrev.kind = "kill"
  /\ hist.up = hist.upPrev

\* the directory holds a manifest naming the release, every artifact of the
\* release that the source selects, and nothing else
FullyPopulated(dir, rel, regex) ==
  LET files == downloadReleaseAssets(rel.assets, regex)
  IN /\ ManifestName \in DOMAIN dir
     /\ dir[ManifestName].kind = "json"
     /\ dir[ManifestName].doc.upstream.tag = rel.tag_name
     /\ DOMAIN dir = {files[i].name : i \in 1..Len(files)} \cup {ManifestName}
     /\ \A i \in 1..Len(files) :
          files[i].name # ManifestName => dir[files[i].name] = files[i].buf

\* the pointer directory the killed run was rebuilding, before and after the
\* run that followed
KilledPointerBefore == DirOr(PkgDirs(hist.before.dirs, cfg[1].package),
                             PointerDirOf(hist.netPrev.target))
KilledPointerNow == DirOr(PkgDirs(dirs, cfg[1].package), PointerDirOf(hist.netPrev.target))

\* C24: when a run is killed while it publishes a pointer, at any file
\* operation of the publish, before or after the index update, and the
\* pipeline then runs to completion against the same upstream, the pointer
\* directory that was being rebuilt holds the manifest of its target release
\* and exactly that release's selected files
C24_CrashRecovery ==
  RerunAfterKill =>
    FullyPopulated(KilledPointerNow,
                   TargetRelease(hist.up[cfg[1].repo], hist.netPrev.target),
                   cfg[1].asset_regex)

\* a run was killed between clearing and repopulating the @stable directory
\* that an earlier run had published, and the next run repopulated it
C24_Witness ==
  /\ RerunAfterKill
  /\ hist.netPrev.target = "stable"
  /\ StateOf(hist.before.state, cfg[1].package).stable_key # NoKey
  /\ StableDir \in DOMAIN PkgDirs(hist.before.dirs, cfg[1].package)
  /\ ManifestName \notin DOMAIN KilledPointerBefore
  /\ ManifestName \in DOMAIN KilledPointerNow

(***************************************************************************)
(* C25: full replace                                                       *)
(***************************************************************************)
\* the directory holds its manifest and exactly the files the manifest lists
ExactlyManifestFiles(dir) ==
  /\ ManifestName \in DOMAIN dir
  /\ dir[ManifestName].kind = "json"
  /\ DOMAIN dir = DOMAIN dir[ManifestName].doc.files \cup {ManifestName}

\* the directories whose manifest the last run wrote
WrittenByLastRun(pd) ==
  {d \in DOMAIN pd : HasManifest(pd, d) /\ pd[d][ManifestName].doc.built_at = clock}

\* the version directory and the stable aliases of the publish that wrote
\* the manifest of the pointer
PublishedWith(pd, ptr) ==
  LET doc == pd[ptr][ManifestName].doc
      coerced == semverCoerce(doc.version)
  IN {PrefixV(doc.version)}
       \cup (IF doc.channel = "stable" /\ semverValid(coerced) /\ ~semverPrerelease(coerced)
             THEN {S(TRUE, <<semverMajor(coerced)>>, ""),
                   S(TRUE, <<semverMajor(coerced), semverMinor(coerced)>>, "")}
             ELSE {})

\* every pointer, alias and version directory whose manifest the last run
\* wrote holds the files its manifest lists and no other file
C25_NoLeftover ==
  \A pkg \in Pkgs : \A d \in WrittenByLastRun(PkgDirs(dirs, pkg)) :
    ExactlyManifestFiles(PkgDirs(dirs, pkg)[d])

\* C25: after a run that published to a pointer, the pointer, the version
\* directory of that publish and the aliases it rebuilt each contain exactly
\* the files listed in the new manifest plus manifest.json
C25_FullReplace ==
  \A pkg \in Pkgs :
    LET pd == PkgDirs(dirs, pkg)
    IN \A ptr \in ChannelDirs \cap WrittenByLastRun(pd) :
         \A d \in {ptr} \cup PublishedWith(pd, ptr) :
           /\ d \in DOMAIN pd
           /\ ExactlyManifestFiles(pd[d])

\* a run replaced a pointer whose old version had a file the new one lacks
C25_ShrinkWitness ==
  \E pkg \in Pkgs :
    LET pd == PkgDirs(dirs, pkg)
        old == DirOr(PkgDirs(hist.before.dirs, pkg), LatestDir)
    IN /\ LatestDir \in WrittenByLastRun(pd)
       /\ DOMAIN old \ DOMAIN pd[LatestDir] # {}
       /\ ExactlyManifestFiles(pd[LatestDir])

(***************************************************************************)
(* C26: skip gate                                                          *)
(***************************************************************************)
\* the last report has a SKIP row for the package
SkippedNow(pkg) == \E i \in RowsOf(Rows, pkg) : Rows[i].status = "SKIP"

\* the single-target sources whose last run computed an identity: a release
\* tag or a commit
ReachedGate ==
  {i \in 1..Len(cfg) :
     /\ cfg[i].package # "" /\ cfg[i].repo # ""
     /\ \/ /\ cfg[i].type = "github-release-asset"
           /\ hist.up[cfg[i].repo].latest.tag_name # EmptyStr
        \/ /\ cfg[i].type = "github-raw-file"
           /\ hist.up[cfg[i].repo].head # NoSha}

\* the identity computed in the last run is the one stored before it
SameIdentity(src) ==
  IF src.type = "github-release-asset"
  THEN StateOf(hist.before.state, src.package).last_upstream_tag
         = hist.up[src.repo].latest.tag_name
  ELSE StateOf(hist.before.state, src.package).last_commit = hist.up[src.repo].head

\* no exception was caught for the semver source in the last run
NoCaughtException == \A i \in PublishRows : Rows[i].upstream # EmptyStr

\* C26: in every run a release-asset or raw-file source is skipped exactly
\* when its tag or commit equals the stored one, and a semver source is
\* skipped exactly when no channel target has a new identity and otherwise
\* reports one publish attempt for each target with a new identity
C26_SkipGate ==
  clock > 0 =>
    /\ \A i \in ReachedGate : SkippedNow(cfg[i].package) <=> SameIdentity(cfg[i])
    /\ SemverRan =>
         /\ SkippedNow("lib") <=> NeededTargets = {}
         /\ Cardinality(PublishRows) = Cardinality(NeededTargets)

\* the gate in the runs of the semver source that caught no exception
C26_GateWithoutException ==
  (SemverRan /\ NoCaughtException) =>
    /\ SkippedNow("lib") <=> NeededTargets = {}
    /\ Cardinality(PublishRows) = Cardinality(NeededTargets)

\* a run published @beta alone: the identities of @latest and @stable were
\* the stored ones
C26_OnlyBetaWitness ==
  /\ SemverRan
  /\ NoCaughtException
  /\ NeededTargets = {"beta"}
  /\ Cardinality(PublishRows) = 1

(***************************************************************************)
(* C27: index channel snapshots                                            *)
(***************************************************************************)
\* the first entry of the list with the channel, the null entry when none
FirstOfChannel(vs, channel) ==
  IF \E i \in 1..Len(vs) : vs[i].channel = channel
  THEN vs[CHOOSE i \in 1..Len(vs) :
            /\ vs[i].channel = channel
            /\ \A j \in 1..(i - 1) : vs[j].channel # channel]
  ELSE NullEntry

\* C27: after every updateIndexes call last_stable in index.json is the
\* first entry of the versions.json just written whose channel is stable,
\* and last_beta the first whose channel is beta; null when there is none
C27_ChannelSnapshots ==
  ReaderPkg \in DOMAIN indexJson.packages =>
    /\ indexJson.packages[ReaderPkg].last_stable
         = FirstOfChannel(versionsJson[ReaderPkg], "stable")
    /\ indexJson.packages[ReaderPkg].last_beta
         = FirstOfChannel(versionsJson[ReaderPkg], "beta")

\* versions.json holds two stable versions behind a newer beta, and no beta
\* was the case before
C27_Witness ==
  /\ ReaderPkg \in DOMAIN versionsJson
  /\ Len(versionsJson[ReaderPkg]) = 3
  /\ versionsJson[ReaderPkg][1].channel = "beta"
  /\ indexJson.packages[ReaderPkg].last_stable = versionsJson[ReaderPkg][2]
  /\ indexJson.packages[ReaderPkg].last_beta = versionsJson[ReaderPkg][1]

\* only stable versions are published: last_beta is null
C27_NullWitness ==
  /\ ReaderPkg \in DOMAIN versionsJson
  /\ Len(versionsJson[ReaderPkg]) = 2
  /\ indexJson.packages[ReaderPkg].last_beta = NullEntry
  /\ indexJson.packages[ReaderPkg].last_stable = versionsJson[ReaderPkg][1]

(***************************************************************************)
(* C28: meta retention                                                     *)
(***************************************************************************)
\* the meta block index.json holds for the package
IndexMeta(index) ==
  IF ReaderPkg \in DOMAIN index.packages THEN index.packages[ReaderPkg].meta ELSE "null"

\* C28: an updateIndexes call that is given a meta block stores it in
\* index.json, and a call that is given none leaves the stored meta as it was
C28_MetaRetention ==
  [][indexJson' # indexJson =>
       IndexMeta(indexJson') = (IF wall'.meta # "null" THEN wall'.meta
                                ELSE IndexMeta(indexJson))]_vars

\* the last publish had no meta block and index.json still holds the one of
\* an earlier publish
C28_Witness ==
  /\ wall.meta = "null"
  /\ IndexMeta(indexJson) = "m1"
  /\ Len(versionsJson[ReaderPkg]) >= 2

(***************************************************************************)
(* C29: single-pointer adapters                                            *)
(***************************************************************************)
\* the packages of the release-asset and raw-file sources
SinglePointerPkgs ==
  {cfg[i].package : i \in {j \in 1..Len(cfg) :
                             /\ cfg[j].package # ""
                             /\ cfg[j].type \in {"github-release-asset", "github-raw-file"}}}

\* C29: a package published by the release-asset or the raw-file adapter
\* has @latest and neither an @stable nor an @beta directory: the adapters
\* do not create them
C29_SinglePointer ==
  \A pkg \in SinglePointerPkgs :
    /\ StableDir \notin DOMAIN PkgDirs(dirs, pkg)
    /\ BetaDir \notin DOMAIN PkgDirs(dirs, pkg)

\* the @stable and @beta directories of such a package never hold a file
C29_NeverPopulated ==
  \A pkg \in SinglePointerPkgs :
    /\ DirOr(PkgDirs(dirs, pkg), StableDir) = EmptyDir
    /\ DirOr(PkgDirs(dirs, pkg), BetaDir) = EmptyDir

\* a raw-file publish rebuilt @latest
C29_RebuiltLatest ==
  /\ "raw" \in SinglePointerPkgs
  /\ Published(Rows, "raw")
  /\ HasManifest(PkgDirs(dirs, "raw"), LatestDir)

(***************************************************************************)
(* C30: a failed build publishes nothing                                   *)
(***************************************************************************)
\* the build of the release fails: a command exits non-zero or times out,
\* the working directory is missing, or no built file matches the extract
\* rules
BuildFails(rel, extractRules) ==
  \/ BuildOf(rel.tag_name).status # "ok"
  \/ \A i \in 1..Len(BuildOf(rel.tag_name).tree) :
       BuildOf(rel.tag_name).tree[i].name \notin extractRules

\* the channel targets with a new identity whose build failed or would fail
\* in the last run
FailedBuildTargets ==
  {t \in NeededTargets :
     /\ TargetRelease(hist.up["r1"], t).tag_name # EmptyStr
     /\ BuildFails(TargetRelease(hist.up["r1"], t), cfg[1].extract)}

StoredKey(state, t) ==
  CASE t = "latest" -> StateOf(state, "lib").latest_key
    [] t = "stable" -> StateOf(state, "lib").stable_key
    [] OTHER -> StateOf(state, "lib").beta_key

\* the entries of the version in a versions.json and in the index entry
EntriesOf(versions, index, version) ==
  {e \in {VersionsOf(versions, "lib")[i] : i \in 1..Len(VersionsOf(versions, "lib"))}
         \cup (IF "lib" \in DOMAIN index.packages
               THEN {index.packages["lib"][k] : k \in {"last_stable", "last_beta", "last_latest"}}
               ELSE {}) :
     e.version = version}

\* the run left what belongs to the target as it was: its version
\* directory, the content of its pointer, every directory that holds its
\* version, the entries of its version in versions.json and index.json, and
\* its stored identity
TargetUntouched(t) ==
  LET rel == TargetRelease(hist.up["r1"], t)
      vdir == PrefixV(stripV(rel.tag_name))
  IN /\ (vdir \in DOMAIN LibNow) = (vdir \in DOMAIN LibBefore)
     /\ DirOr(LibNow, vdir) = DirOr(LibBefore, vdir)
     /\ DirOr(LibNow, PointerDirOf(t)) = DirOr(LibBefore, PointerDirOf(t))
     /\ \A d \in DOMAIN LibNow :
          ManifestVersion(LibNow, d) = vdir => LibNow[d] = DirOr(LibBefore, d)
     /\ EntriesOf(versionsJson, indexJson, vdir)
          = EntriesOf(hist.before.versions, hist.before.index, vdir)
     /\ StoredKey(stateJson, t) = StoredKey(hist.before.state, t)

\* a failed build leaves everything of its target as it was and the source
\* is reported FAIL
C30_NothingPublished ==
  (clock > 0 /\ cfg[1].build) =>
    \A t \in FailedBuildTargets :
      /\ TargetUntouched(t)
      /\ \E i \in RowsOf(Rows, "lib") : Rows[i].status = "FAIL"

\* C30: when the build fails for a channel target, the run creates or
\* modifies no version directory, pointer directory, versions.json entry,
\* index.json entry or state entry of that target, and the source is
\* reported FAIL
C30_BuildFailurePublishesNothing ==
  (clock > 0 /\ cfg[1].build) =>
    \A t \in FailedBuildTargets :
      /\ TargetUntouched(t)
      /\ (PointerDirOf(t) \in DOMAIN LibNow) = (PointerDirOf(t) \in DOMAIN LibBefore)
      /\ \E i \in RowsOf(Rows, "lib") : Rows[i].status = "FAIL"

\* the build of the stable target failed in a run that published @latest
C30_Witness ==
  /\ clock > 0
  /\ cfg[1].build
  /\ "stable" \in FailedBuildTargets
  /\ Published(Rows, "lib")
  /\ TargetUntouched("stable")

(***************************************************************************)
(* C31: the bundle manifest is a full rebuild                              *)
(***************************************************************************)
\* the places of the versions.json entries of the package whose version
\* directory holds a manifest
ListedWithManifest(pkg) ==
  {i \in 1..Len(VersionsOf(versionsJson, pkg)) :
     LET ver == VersionsOf(versionsJson, pkg)[i].version
     IN /\ ver \in DOMAIN PkgDirs(dirs, pkg)
        /\ ManifestName \in DOMAIN PkgDirs(dirs, pkg)[ver]}

\* C31: after every run in which a publish succeeded bundle-manifest.json
\* has the packages of index.json, each with its index entry as channels and
\* with exactly one version record for each versions.json entry whose
\* version directory has a manifest, the record's files carrying the
\* integrity and bytes of that manifest; it has no other package or version
C31_BundleFullRebuild ==
  (clock > 0 /\ \E i \in 1..Len(Rows) : Rows[i].status = "OK") =>
    /\ bundleJson.generated_at = clock
    /\ DOMAIN bundleJson.packages = DOMAIN indexJson.packages
    /\ \A pkg \in DOMAIN indexJson.packages :
         LET vs == VersionsOf(versionsJson, pkg)
             b == bundleJson.packages[pkg]
         IN /\ b.channels = indexJson.packages[pkg]
            /\ DOMAIN b.versions = {vs[i].version : i \in ListedWithManifest(pkg)}
            /\ Cardinality(DOMAIN b.versions) = Cardinality(ListedWithManifest(pkg))
            /\ \A ver \in DOMAIN b.versions :
                 b.versions[ver].files = PkgDirs(dirs, pkg)[ver][ManifestName].doc.files

\* a run published into a package that already had a version: the bundle
\* has a record for both, and the record of the older version was rebuilt
\* from a manifest rewritten since the bundle before
C31_Witness ==
  /\ clock >= 2
  /\ \E i \in 1..Len(Rows) : Rows[i].status = "OK"
  /\ \E pkg \in DOMAIN bundleJson.packages :
       /\ Cardinality(DOMAIN bundleJson.packages[pkg].versions) >= 2
       /\ pkg \in DOMAIN hist.before.bundle.packages
       /\ \E ver \in DOMAIN hist.before.bundle.packages[pkg].versions :
            /\ ver \in DOMAIN bundleJson.packages[pkg].versions
            /\ bundleJson.packages[pkg].versions[ver]
                 # hist.before.bundle.packages[pkg].versions[ver]

(***************************************************************************)
(* C32  State advances only on success.                                    *)
(***************************************************************************)
\* the identities external-state.json stores for a package, each with the
\* pointer its target publishes to and the tag or commit it stands for
StoredIdentities(state, pkg) ==
  LET st == IF pkg \in DOMAIN state THEN state[pkg] ELSE NoState
  IN {[field |-> "latest_key", pointer |-> LatestDir, id |-> st.latest_key.tag],
      [field |-> "stable_key", pointer |-> StableDir, id |-> st.stable_key.tag],
      [field |-> "beta_key", pointer |-> BetaDir, id |-> st.beta_key.tag],
      [field |-> "last_upstream_tag", pointer |-> LatestDir, id |-> st.last_upstream_tag],
      [field |-> "last_commit", pointer |-> LatestDir, id |-> st.last_commit]}

\* the identities the last run changed
AdvancedIdentities(pkg) ==
  StoredIdentities(stateJson, pkg) \ StoredIdentities(hist.before.state, pkg)

\* the last run published the identity to the pointer and indexed it: the
\* pointer manifest was built by this run from that tag or commit, the
\* version it names is listed in versions.json as built by this run, and
\* the report has the OK publish row
PublishedAndIndexed(pkg, t) ==
  /\ HasManifest(PkgDirs(dirs, pkg), t.pointer)
  /\ \E doc \in {PkgDirs(dirs, pkg)[t.pointer][ManifestName].doc} :
       /\ doc.built_at = clock
       /\ IF t.field = "last_commit" THEN doc.upstream.commit = t.id
          ELSE doc.upstream.tag = t.id
       /\ \E i \in 1..Len(VersionsOf(versionsJson, pkg)) :
            /\ VersionsOf(versionsJson, pkg)[i].version = doc.version
            /\ VersionsOf(versionsJson, pkg)[i].built_at = clock
       /\ pkg \in DOMAIN indexJson.packages
  /\ \E i \in RowsOf(Rows, pkg) : Rows[i].action = "publish" /\ Rows[i].status = "OK"

\* the FAIL rows of a report, in order
RECURSIVE FailRows(_)
FailRows(rows) ==
  IF rows = <<>> THEN <<>>
  ELSE IF Head(rows).status = "FAIL" THEN <<Head(rows)>> \o FailRows(Tail(rows))
  ELSE FailRows(Tail(rows))

\* C32: an identity stored for a package (latest_key, stable_key, beta_key,
\* last_upstream_tag, last_commit) changes in a run only when the publish
\* and the index update of its target completed in that run; and when the
\* next run sees the same upstream, every failure of the run before is met
\* again, so the failed targets were attempted again
C32_StateAdvancesOnSuccess ==
  /\ clock > 0 =>
       \A pkg \in Pkgs : \A t \in AdvancedIdentities(pkg) : PublishedAndIndexed(pkg, t)
  /\ TwoRunsSameUpstream => FailRows(PrevRows) = FailRows(Rows)

\* a run that stored the identity of one target while another target of the
\* same source failed, followed by a run in which the failure is met again
C32_Witness ==
  /\ TwoRunsSameUpstream
  /\ FailRows(Rows) # <<>>
  /\ \E i \in 1..Len(FailRows(Rows)) : FailRows(Rows)[i].package = "lib"
  /\ StoredKey(hist.before.state, "latest") # NoKey
  /\ StoredKey(stateJson, "stable") = NoKey

(***************************************************************************)
(* C33  State-pointer agreement.                                           *)
(***************************************************************************)
\* the version directory name an identity stands for: v<tag without v>, or
\* v<first twelve characters of the commit>
DerivedVersion(t) ==
  IF t.field = "last_commit" THEN [v |-> TRUE, core |-> <<>>, rest |-> t.id.head]
  ELSE [t.id EXCEPT !.v = TRUE]

\* the identities the persisted state holds for a package
HeldIdentities(pkg) ==
  {t \in StoredIdentities(stateJson, pkg) : t.id \notin {EmptyStr, NoSha}}

\* C33: at the end of every run, for every package and every identity the
\* persisted state stores for it, the manifest of the corresponding pointer
\* directory names the version derived from that identity (@latest for
\* latest_key, last_upstream_tag and last_commit, @stable for stable_key,
\* @beta for beta_key)
C33_StatePointerAgreement ==
  clock > 0 =>
    \A pkg \in Pkgs : \A t \in HeldIdentities(pkg) :
      ManifestVersion(PkgDirs(dirs, pkg), t.pointer) = DerivedVersion(t)

\* the agreement holds wherever the pointer does not name a version of
\* only a major and a minor
C33_AgreesUnlessMajorMinor ==
  clock > 0 =>
    \A pkg \in Pkgs : \A t \in HeldIdentities(pkg) :
      \/ ManifestVersion(PkgDirs(dirs, pkg), t.pointer) = DerivedVersion(t)
      \/ Len(ManifestVersion(PkgDirs(dirs, pkg), t.pointer).core) = 2

(***************************************************************************)
(* C34  Version directories survive alias rebuilds.                        *)
(***************************************************************************)
\* the pointers the last run rebuilt from a version of channel stable
StablePublishes(pd) ==
  {p \in ChannelDirs :
     /\ HasManifest(pd, p)
     /\ pd[p][ManifestName].doc.built_at = clock
     /\ pd[p][ManifestName].doc.channel = "stable"}

\* C34: every publish of a stable version, tags of only a major or a
\* major.minor included, ends with the version directory present and
\* holding the manifest of that version: the rebuild of the v<major> and
\* v<major>.<minor> aliases has not deleted or emptied it
C34_VersionDirSurvives ==
  clock > 0 =>
    \A pkg \in Pkgs : \A p \in StablePublishes(PkgDirs(dirs, pkg)) :
      LET pd == PkgDirs(dirs, pkg)
          ver == pd[p][ManifestName].doc.version
      IN /\ HasManifest(pd, ver)
         /\ pd[ver][ManifestName].doc.version = ver

\* for versions of three components the version directory survives
C34_FullVersionsSurvive ==
  clock > 0 =>
    \A pkg \in Pkgs : \A p \in StablePublishes(PkgDirs(dirs, pkg)) :
      LET pd == PkgDirs(dirs, pkg)
          ver == pd[p][ManifestName].doc.version
      IN Len(ver.core) # 2 =>
           /\ HasManifest(pd, ver)
           /\ pd[ver][ManifestName].doc.version = ver

(***************************************************************************)
(* publishExternal one file operation at a time, for any target of the     *)
(* semver source                                                           *)
(***************************************************************************)
\* the releases published in steps
StepCatalogue ==
  {r \in SemverCatalogue : downloadReleaseAssets(r.assets, AllNames) # <<>>}

InitSteps == Init /\ cfg = <<SemverSrc>>

\* publishFromRelease calls publishExternal for one of its pointers
StartTarget ==
  /\ pending = <<>>
  /\ clock < MaxPublishes
  /\ \E r \in StepCatalogue, pointerName \in {"latest", "stable", "beta"} :
       /\ pointerName = "stable" => ~r.prerelease
       /\ pointerName = "beta" => r.prerelease
       /\ LET version == normalizeUpstreamTagToVersion(r.tag_name)
              prov == [type |-> "github-release", repo |-> "r1", tag |-> r.tag_name,
                       commit |-> NoSha]
          IN pending' = publishExternal(ReaderPkg, version, detectChannelFromVersion(version),
                                        clock + 1, prov,
                                        downloadReleaseAssets(r.assets, AllNames), "null",
                                        pointerName)
  /\ clock' = clock + 1
  /\ UNCHANGED <<cfg, strict, upstream, dirs, versionsJson, indexJson, stateJson, bundleJson,
                 reportJson, exitCode, events, hist, reader, wall>>

NextSteps == StartTarget \/ FileOp

SpecSteps == InitSteps /\ [][NextSteps]_vars

(***************************************************************************)
(* C35  Manifest is the commit point at every step.                        *)
(***************************************************************************)
\* the directories of the package that hold a manifest.json with a manifest
WithManifest(pd) ==
  {d \in DOMAIN pd : ManifestName \in DOMAIN pd[d] /\ pd[d][ManifestName].kind = "json"}

\* every file the manifest of the directory lists is in the directory with
\* the recorded integrity
ListedFilesPresent(dir) ==
  \A n \in DOMAIN dir[ManifestName].doc.files :
    /\ n \in DOMAIN dir
    /\ dir[ManifestName].doc.files[n].integrity = [alg |-> "sha384", of |-> dir[n]]

\* C35: after each file operation of a version-directory write or of a
\* pointer or alias rebuild, a directory in which manifest.json is present
\* holds every file that manifest lists, with bytes matching the recorded
\* integrity
C35_ManifestIsCommitPoint ==
  \A d \in WithManifest(PkgDirs(dirs, ReaderPkg)) :
    ListedFilesPresent(PkgDirs(dirs, ReaderPkg)[d])

\* the same for manifests that do not list a file named manifest.json
C35_CommitPointUnlessManifestAsset ==
  \A d \in WithManifest(PkgDirs(dirs, ReaderPkg)) :
    \/ ManifestName \in DOMAIN PkgDirs(dirs, ReaderPkg)[d][ManifestName].doc.files
    \/ ListedFilesPresent(PkgDirs(dirs, ReaderPkg)[d])

(***************************************************************************)
(* C36  Pointer name matches channel.                                      *)
(***************************************************************************)
\* the channel recorded by the manifest of a pointer directory, "" when the
\* directory holds no manifest
PointerChannel(pd, ptr) ==
  IF ptr \in DOMAIN pd /\ ManifestName \in DOMAIN pd[ptr] /\ pd[ptr][ManifestName].kind = "json"
  THEN pd[ptr][ManifestName].doc.channel
  ELSE ""

\* C36: at the end of every run the manifest held in @stable has channel
\* stable and the manifest held in @beta has channel beta, whatever the
\* prerelease flags and the pre-release components of the selected tags
C36_PointerMatchesChannel ==
  clock > 0 =>
    \A pkg \in Pkgs :
      /\ PointerChannel(PkgDirs(dirs, pkg), StableDir) \in {"", "stable"}
      /\ PointerChannel(PkgDirs(dirs, pkg), BetaDir) \in {"", "beta"}

\* the channel of the manifest of a pointer follows the tag alone: beta
\* when the tag contains a "-", stable otherwise
C36_ChannelFollowsTag ==
  clock > 0 =>
    \A p \in {StableDir, BetaDir} :
      PointerChannel(PkgDirs(dirs, "lib"), p) # "" =>
        (PointerChannel(PkgDirs(dirs, "lib"), p) = "beta"
           <=> PointerTag(PkgDirs(dirs, "lib"), p).rest \in DashRests)

(***************************************************************************)
(* C37  Index latest agrees with the @latest pointer.                      *)
(***************************************************************************)
\* the version last_latest of the index entry of a package names, the empty
\* string when there is none
IndexLatest(pkg) ==
  IF pkg \in DOMAIN indexJson.packages /\ indexJson.packages[pkg].last_latest # NullEntry
  THEN indexJson.packages[pkg].last_latest.version
  ELSE EmptyStr

\* C37: at the end of every run and for every package, the version named by
\* last_latest in index.json is the version of the manifest held in the
\* @latest directory of the package
C37_IndexLatestIsPointer ==
  clock > 0 =>
    \A pkg \in Pkgs : IndexLatest(pkg) = ManifestVersion(PkgDirs(dirs, pkg), LatestDir)

\* for the sources that publish @latest only, the two agree
C37_SinglePointerAgree ==
  clock > 0 =>
    \A pkg \in Pkgs \ {"lib"} : IndexLatest(pkg) = ManifestVersion(PkgDirs(dirs, pkg), LatestDir)

(***************************************************************************)
(* C38  Manifest entries match stored bytes for every artifact list.       *)
(***************************************************************************)
\* every name of the files map of the manifest is a file of the directory
\* with the recorded sha384 digest and length
EntriesMatchBytes(dir) ==
  \A n \in DOMAIN dir[ManifestName].doc.files :
    /\ n \in DOMAIN dir
    /\ dir[ManifestName].doc.files[n] =
         [integrity |-> [alg |-> "sha384", of |-> dir[n]], bytes |-> ByteLength(dir[n])]

\* C38: once publishExternal is over, every name in the files map of the
\* version manifest refers to a file of the version directory whose sha384
\* digest and length are the recorded ones, whatever the artifact list, an
\* artifact named manifest.json included
C38_EntriesMatchStoredBytes ==
  pending = <<>> =>
    \A d \in OwnVersionDirs(PkgDirs(dirs, ReaderPkg)) : EntriesMatchBytes(PkgDirs(dirs, ReaderPkg)[d])

\* the entries other than manifest.json match the stored bytes
C38_OtherEntriesMatch ==
  pending = <<>> =>
    \A d \in OwnVersionDirs(PkgDirs(dirs, ReaderPkg)) :
      LET dir == PkgDirs(dirs, ReaderPkg)[d]
      IN \A n \in DOMAIN dir[ManifestName].doc.files \ {ManifestName} :
           /\ n \in DOMAIN dir
           /\ dir[ManifestName].doc.files[n] =
                [integrity |-> [alg |-> "sha384", of |-> dir[n]], bytes |-> ByteLength(dir[n])]

(***************************************************************************)
(* C39  Bundle manifest catches up after an interrupted run.               *)
(***************************************************************************)
\* the last run ran to its end
RunCompleted == clock > 0 /\ hist.net.kind # "kill"

\* bundle-manifest.json has the packages of index.json with their index
\* entries, and for each a record of every version listed in versions.json
\* that has a manifest, with the files of that manifest
BundleAgrees ==
  /\ DOMAIN bundleJson.packages = DOMAIN indexJson.packages
  /\ \A pkg \in DOMAIN indexJson.packages :
       /\ bundleJson.packages[pkg].channels = indexJson.packages[pkg]
       /\ \A i \in ListedWithManifest(pkg) :
            LET ver == VersionsOf(versionsJson, pkg)[i].version
            IN /\ ver \in DOMAIN bundleJson.packages[pkg].versions
               /\ bundleJson.packages[pkg].versions[ver].files
                    = PkgDirs(dirs, pkg)[ver][ManifestName].doc.files

\* C39: at the end of every run that completes, a run that follows a killed
\* run included, bundle-manifest.json agrees with index.json and with every
\* version manifest listed in versions.json
C39_BundleCatchesUp == RunCompleted => BundleAgrees

\* a completed run that follows, with the same upstream, a run killed before
\* external-state.json was written rebuilds the bundle
C39_CatchesUpBeforeStateWrite ==
  (RunCompleted /\ hist.netPrev.target = "writeJson" /\ hist.up = hist.upPrev) =>
    /\ BundleAgrees
    /\ bundleJson.generated_at = clock

====
